---- MODULE Spec2Model ----
(***************************************************************************)
(* pg2arrow: the columnar accumulator (query.c / buffer.c / arrow_types.c),*)
(* the record batch layout and the FlatBuffer encoder and decoder          *)
(* (arrow_write.c / arrow_read.c), as state machines over byte images.     *)
(*                                                                         *)
(* Conventions.  Memory is little-endian (the host); a host integer that   *)
(* lives in memory is its sequence of bytes.  The wire (libpq binary       *)
(* format) is big-endian.  addr = NULL is the absent payload.              *)
(***************************************************************************)
EXTENDS Integers, Sequences, FiniteSets, TLC

VARIABLES
    variant,    \* which build of pgsql_append_results runs: "query" | "buffer"
    table,      \* SQLtable: segment_sz, nrooms, nitems, attrs
    pc,         \* position of the run: "next" | "retry" | "fatal" | "written" | "laid out" | "start" | "read" | "closed" | "dumped" | "build" | "flat" | "sent"
    cur,        \* the row (PGresult tuple i) being appended
    consumed,   \* number of rows whose loop iteration completed (i)
    fed,        \* history: the tuples the loop has taken from the result, in order
    flushed,    \* history: what pgsql_writeout_buffer saw at each call
    rbatch,     \* the RecordBatch built by the last writeArrowRecordBatch
    heap,       \* the byte that heap memory holds where nothing has written it
    file,       \* the bytes written to table->fdesc so far
    node,       \* the ArrowMessage that readArrowMessage decoded last
    writer,     \* the file the writer is compiled from: "arrow_read.c" | "arrow_write.c"
    row_usage,  \* the local usage of pgsql_append_results at the threshold test
    stdout,     \* the nodes readArrowFile has handed to dumpArrowNode
    builder,    \* a FBTableBuf under construction and the puts made on it
    sqlbuffer   \* one SQLbuffer and the last call made on it

vars == <<variant, table, pc, cur, consumed, fed, flushed, rbatch, heap, file, node,
          writer, row_usage, stdout, builder, sqlbuffer>>

\* Bound of the model: rows fed to pgsql_append_results.
MaxRows == 3

\* the null pointer: an address that no payload (a sequence of bytes 0..255) equals
NULL == <<-1>>

(***************************************************************************)
(* c.h alignment macros                                                    *)
(***************************************************************************)
TYPEALIGN(ALIGNVAL, LEN) == ((LEN + ALIGNVAL - 1) \div ALIGNVAL) * ALIGNVAL

SHORTALIGN(LEN) == TYPEALIGN(2, LEN)

INTALIGN(LEN) == TYPEALIGN(4, LEN)

MAXALIGN(LEN) == TYPEALIGN(8, LEN)

ARROWALIGN(LEN) == TYPEALIGN(64, LEN)

BITMAPLEN(NATTS) == (NATTS + 7) \div 8

Max(a, b) == IF a > b THEN a ELSE b

(***************************************************************************)
(* Bytes and integers                                                      *)
(***************************************************************************)
RECURSIVE Zeros(_)
Zeros(n) == IF n <= 0 THEN <<>> ELSE <<0>> \o Zeros(n - 1)

RECURSIVE Reverse(_)
Reverse(s) == IF s = <<>> THEN <<>> ELSE Reverse(Tail(s)) \o <<Head(s)>>

\* the bytes of a signed 32-bit integer, least significant first
LE32(v) ==
    LET u == IF v < 0 THEN v + 2147483647 + 1 ELSE v
        hi == (u \div 16777216) + (IF v < 0 THEN 128 ELSE 0)
    IN  <<u % 256, (u \div 256) % 256, (u \div 65536) % 256, hi>>

\* a signed 32-bit integer read from 4 bytes of memory
Int32At(b) ==
    LET low == b[1] + 256 * b[2] + 65536 * b[3]
    IN  IF b[4] >= 128
        THEN low + 16777216 * (b[4] - 128) - 2147483647 - 1
        ELSE low + 16777216 * b[4]

\* what PostgreSQL sends for an int4: most significant byte first
BE32(v) == Reverse(LE32(v))

\* ntohl / ntohs on a little-endian host: the bytes of the argument reversed
ntohl(b) == Reverse(b)

(***************************************************************************)
(* SQLbuffer                                                               *)
(***************************************************************************)
sql_buffer_init == [usage |-> 0, length |-> 0, data |-> <<>>]

\* a bitmap buffer keeps the set of the bit indexes that are 1
sql_bitmap_init == [usage |-> 0, length |-> 0, data |-> {}]

\* mutation: the length asked for is taken as it is
Doubled_to_required(length, required) == IF length < required THEN required ELSE length

RECURSIVE Doubled(_, _)
Doubled(length, required) ==
    IF length < required THEN Doubled(2 * length, required) ELSE length

sql_buffer_expand(buf, required) ==
    IF buf.length < required
    THEN IF buf.length = 0
         THEN [buf EXCEPT !.usage = 0, !.length = Doubled(2097152, required)]
         ELSE [buf EXCEPT !.length = Doubled(2 * buf.length, required)]
    ELSE buf

\* memcpy(buf->ptr + buf->usage, src, len): bytes beyond the copy keep their content
Poke(data, at, src) ==
    SubSeq(data, 1, at) \o src \o SubSeq(data, at + Len(src) + 1, Len(data))

sql_buffer_append(buf, src) ==
    LET copy(b) == [b EXCEPT !.data = Poke(b.data, b.usage, src),
                             !.usage = b.usage + Len(src)]
    IN  copy(sql_buffer_expand(buf, buf.usage + Len(src)))

sql_buffer_append_zero(buf, len) == sql_buffer_append(buf, Zeros(len))

sql_buffer_setbit(buf, index) ==
    LET set(b) == [b EXCEPT !.data = b.data \cup {index}]
    IN  set(sql_buffer_expand(buf, BITMAPLEN(index + 1)))

\* mutation: the bit is left as it was
sql_buffer_clrbit_keeps_bit(buf, index) ==
    sql_buffer_expand(buf, BITMAPLEN(index + 1))

sql_buffer_clrbit(buf, index) ==
    LET clr(b) == [b EXCEPT !.data = b.data \ {index}]
    IN  clr(sql_buffer_expand(buf, BITMAPLEN(index + 1)))

\* mutation: the buffer keeps what it held
sql_buffer_clear_keeps_usage(buf) == buf

sql_buffer_clear(buf) == [buf EXCEPT !.usage = 0]

\* the bytes of a buffer that are in use
Used(buf) == SubSeq(buf.data, 1, buf.usage)

\* no call has been made on the SQLbuffer
NoBuffer == [kind |-> "values", buf |-> sql_buffer_init, call |-> "sql_buffer_init",
             arg |-> 0, before |-> sql_buffer_init]

(***************************************************************************)
(* ArrowType, as assignArrowType leaves it in the attribute                *)
(***************************************************************************)
ArrowPrecision__Half == 0

ArrowPrecision__Single == 1

ArrowPrecision__Double == 2

ArrowDateUnit__Day == 0

ArrowTimeUnit__MicroSecond == 2

\* memset(&attr->arrow_type, 0, sizeof(ArrowType)) and the node tag
ArrowType(tag) ==
    [tag |-> tag, bitWidth |-> 0, is_signed |-> FALSE, precision |-> 0,
     scale |-> 0, unit |-> 0, timezone |-> <<>>]

assignArrowTypeInt(typname, attlen) ==
    [ArrowType("Int") EXCEPT !.bitWidth = 8 * attlen,
                             !.is_signed = typname \in {"int2", "int4", "int8"}]

assignArrowTypeFloatingPoint(attlen) ==
    [ArrowType("FloatingPoint") EXCEPT
        !.precision = CASE attlen = 2 -> ArrowPrecision__Half
                        [] attlen = 4 -> ArrowPrecision__Single
                        [] attlen = 8 -> ArrowPrecision__Double]

\* atttypmod = -1: the default precision and scale
assignArrowTypeDecimal == [ArrowType("Decimal") EXCEPT !.precision = 30, !.scale = 11]

assignArrowTypeDate == [ArrowType("Date") EXCEPT !.unit = ArrowDateUnit__Day]

assignArrowTypeTime ==
    [ArrowType("Time") EXCEPT !.unit = ArrowTimeUnit__MicroSecond, !.bitWidth = 64]

assignArrowTypeTimestamp ==
    [ArrowType("Timestamp") EXCEPT !.unit = ArrowTimeUnit__MicroSecond]

\* the types of pg_catalog, a composite type (subtypes given) or any other type
assignArrowType(typname, attlen, subtypes) ==
    IF subtypes # <<>> THEN ArrowType("Struct")
    ELSE IF typname = "bool" THEN ArrowType("Bool")
    ELSE IF typname \in {"int2", "int4", "int8"} THEN assignArrowTypeInt(typname, attlen)
    ELSE IF typname \in {"float4", "float8"} THEN assignArrowTypeFloatingPoint(attlen)
    ELSE IF typname = "date" THEN assignArrowTypeDate
    ELSE IF typname = "time" THEN assignArrowTypeTime
    ELSE IF typname \in {"timestamp", "timestamptz"} THEN assignArrowTypeTimestamp
    ELSE IF typname \in {"text", "varchar", "bpchar"} THEN ArrowType("Utf8")
    ELSE IF typname = "numeric" THEN assignArrowTypeDecimal
    ELSE IF attlen \in {1, 2, 4, 8} THEN assignArrowTypeInt(typname, attlen)
    ELSE ArrowType("Binary")

(***************************************************************************)
(* SQLattribute, as pgsql_setup_attribute leaves it.  attname is the       *)
(* column name as its bytes.                                               *)
(***************************************************************************)
SQLattribute(attname, typname, atttypid, attlen, put, stat, subtypes) ==
    [attname     |-> attname,
     typname     |-> typname,
     atttypid    |-> atttypid,
     attlen      |-> attlen,
     arrow_type  |-> assignArrowType(typname, attlen, subtypes),
     put_value   |-> put,
     stat_update |-> stat,
     subtypes    |-> subtypes,
     nullcount   |-> 0,
     nullmap     |-> sql_bitmap_init,
     values      |-> sql_buffer_init,
     extra       |-> sql_buffer_init,
     min_isnull  |-> TRUE,
     max_isnull  |-> TRUE,
     min_value   |-> 0,
     max_value   |-> 0]

\* an int4 column (INT4OID), a text column (TEXTOID), a composite column
Int4Attr(attname) ==
    SQLattribute(attname, "int4", 23, 4, "put_inline_32b_value",
                 "stat_update_int32_value", <<>>)

TextAttr(attname) ==
    SQLattribute(attname, "text", 25, -1, "put_variable_value", "none", <<>>)

CompositeAttr(attname, subtypes) ==
    SQLattribute(attname, "sometype", 16385, -1, "put_composite_value", "none", subtypes)

BoolAttr(attname) ==
    SQLattribute(attname, "bool", 16, 1, "put_inline_8b_value",
                 "stat_update_int8_value", <<>>)

Int2Attr(attname) ==
    SQLattribute(attname, "int2", 21, 2, "put_inline_16b_value",
                 "stat_update_int16_value", <<>>)

Int8Attr(attname) ==
    SQLattribute(attname, "int8", 20, 8, "put_inline_64b_value",
                 "stat_update_int64_value", <<>>)

DateAttr(attname) ==
    SQLattribute(attname, "date", 1082, 4, "put_date_value",
                 "stat_update_int32_value", <<>>)

TimestampAttr(attname) ==
    SQLattribute(attname, "timestamp", 1114, 8, "put_timestamp_value",
                 "stat_update_int64_value", <<>>)

\* numeric(precision, scale): typmod >= VARHDRSZ carries both
DecimalAttr(attname, precision, scale) ==
    LET typmod(a) == [a EXCEPT !.arrow_type.precision = precision,
                               !.arrow_type.scale = scale]
    IN  typmod(SQLattribute(attname, "numeric", 1700, -1, "put_decimal_value",
                            "none", <<>>))

(***************************************************************************)
(* put_value handlers.  Each returns the attribute after the call, the     *)
(* usage it reports and whether it ended in Elog().                        *)
(***************************************************************************)
PutResult(attr, usage, elog) == [attr |-> attr, usage |-> usage, elog |-> elog]

put_inline_32b_value(attr, row_index, addr) ==
    LET result(a) ==
            PutResult(a,
                      ARROWALIGN(a.values.usage)
                        + (IF a.nullcount > 0 THEN ARROWALIGN(a.nullmap.usage) ELSE 0),
                      FALSE)
    IN  result(IF addr = NULL
               THEN [attr EXCEPT !.nullcount = @ + 1,
                                 !.nullmap = sql_buffer_clrbit(@, row_index),
                                 !.values = sql_buffer_append_zero(@, 4)]
               ELSE [attr EXCEPT !.nullmap = sql_buffer_setbit(@, row_index),
                                 !.values = sql_buffer_append(@, ntohl(addr))])

put_variable_value(attr, row_index, addr) ==
    LET result(a) ==
            PutResult(a,
                      ARROWALIGN(a.values.usage) + ARROWALIGN(a.extra.usage)
                        + (IF a.nullcount > 0 THEN ARROWALIGN(a.nullmap.usage) ELSE 0),
                      FALSE)
        offset(a) == [a EXCEPT !.values = sql_buffer_append(@, LE32(a.extra.usage))]
        put(a0) ==
            IF addr = NULL
            THEN offset([a0 EXCEPT !.nullcount = @ + 1,
                                   !.nullmap = sql_buffer_clrbit(@, row_index)])
            ELSE offset([a0 EXCEPT !.nullmap = sql_buffer_setbit(@, row_index),
                                   !.extra = sql_buffer_append(@, addr)])
    IN  result(put(IF row_index = 0
                   THEN [attr EXCEPT !.values = sql_buffer_append_zero(@, 4)]
                   ELSE attr))

\* the result of a handler that ends with the usage of values and nullmap
InlineUsage(a) ==
    ARROWALIGN(a.values.usage)
      + (IF a.nullcount > 0 THEN ARROWALIGN(a.nullmap.usage) ELSE 0)

\* the branches all inline handlers share: null appends sz zero bytes, a value
\* appends the bytes given
PutInline(attr, row_index, isnull, sz, bytes) ==
    IF isnull
    THEN [attr EXCEPT !.nullcount = @ + 1,
                      !.nullmap = sql_buffer_clrbit(@, row_index),
                      !.values = sql_buffer_append_zero(@, sz)]
    ELSE [attr EXCEPT !.nullmap = sql_buffer_setbit(@, row_index),
                      !.values = sql_buffer_append(@, bytes)]

put_inline_8b_value(attr, row_index, addr) ==
    LET result(a) == PutResult(a, InlineUsage(a), FALSE)
    IN  result(PutInline(attr, row_index, addr = NULL, 1, addr))

put_inline_16b_value(attr, row_index, addr) ==
    LET result(a) == PutResult(a, InlineUsage(a), FALSE)
    IN  result(PutInline(attr, row_index, addr = NULL, 2, ntohl(addr)))

\* value = (uint64)h << 32 | (uint64)l, h and l through ntohl
put_inline_64b_value(attr, row_index, addr) ==
    LET result(a) == PutResult(a, InlineUsage(a), FALSE)
        value(h, l) == ntohl(l) \o ntohl(h)
    IN  result(PutInline(attr, row_index, addr = NULL, 8,
                         IF addr = NULL THEN <<>>
                         ELSE value(SubSeq(addr, 1, 4), SubSeq(addr, 5, 8))))

UNIX_EPOCH_JDATE == 2440588

POSTGRES_EPOCH_JDATE == 2451545

\* a 32-bit sum or difference as the machine keeps it
Wrap32(v) ==
    IF v > 2147483647 THEN v - 2147483647 - 2147483647 - 2
    ELSE IF v < -2147483647 - 1 THEN v + 2147483647 + 2147483647 + 2
    ELSE v

\* a - b for b > 0 without leaving 32 bits on the way
Sub32(a, b) == IF a < 0 THEN Wrap32((a + 2147483647) - b - 2147483647) ELSE a - b

put_date_value(attr, row_index, addr) ==
    LET result(a) == PutResult(a, InlineUsage(a), FALSE)
        value(v) == LE32(Sub32(v, UNIX_EPOCH_JDATE))
    IN  result(PutInline(attr, row_index, addr = NULL, attr.attlen,
                         IF addr = NULL THEN <<>> ELSE value(Int32At(ntohl(addr)))))

\* (POSTGRES_EPOCH_JDATE - UNIX_EPOCH_JDATE) * USECS_PER_DAY, the bytes of the
\* 64-bit integer 946684800000000, least significant first
EpochShift == <<0, 224, 55, 59, 1, 93, 3, 0>>

\* the sum of two 64-bit integers given by their bytes, from byte k on
RECURSIVE Add64(_, _, _, _)
Add64(a, b, k, carry) ==
    IF k > 8 THEN <<>>
    ELSE <<(a[k] + b[k] + carry) % 256>>
           \o Add64(a, b, k + 1, (a[k] + b[k] + carry) \div 256)

\* "convert PostgreSQL epoch to UNIX epoch"; the function ends in return 0
put_timestamp_value(attr, row_index, addr) ==
    LET result(a) == PutResult(a, 0, FALSE)
        value(h, l) == Add64(ntohl(l) \o ntohl(h), EpochShift, 1, 0)
    IN  result(PutInline(attr, row_index, addr = NULL, attr.attlen,
                         IF addr = NULL THEN <<>>
                         ELSE value(SubSeq(addr, 1, 4), SubSeq(addr, 5, 8))))

NUMERIC_SIGN_MASK == 49152

NUMERIC_NEG == 16384

NUMERIC_NAN == 49152

NBASE == 10000

DEC_DIGITS == 4

\* a & b for a, b >= 0
RECURSIVE BitAnd(_, _)
BitAnd(a, b) ==
    IF a = 0 \/ b = 0 THEN 0
    ELSE (a % 2) * (b % 2) + 2 * BitAnd(a \div 2, b \div 2)

\* ntohs() of the 16-bit field at byte offset pos of addr
ntohs(addr, pos) == 256 * addr[pos + 1] + addr[pos + 2]

\* the bytes of an int128 in memory, least significant first (two's complement)
RECURSIVE LE128(_, _)
LE128(v, n) == IF n = 0 THEN <<>> ELSE <<v % 256>> \o LE128(v \div 256, n - 1)

\* the Elog()s and the result of the two loops over the digits
Decimal(value, elog) == [value |-> value, elog |-> elog]

\* mutation: the scale is left out
DecimalFraction_unscaled(addr, ndigits, d, ascale, value) == Decimal(value, FALSE)

\* "makes floating point portion if any", from digit d on
RECURSIVE DecimalFraction(_, _, _, _, _)
DecimalFraction(addr, ndigits, d, ascale, value) ==
    LET dig == IF d >= 0 /\ d < ndigits THEN ntohs(addr, 8 + 2 * d) ELSE 0
        next(v) == DecimalFraction(addr, ndigits, d + 1, ascale - DEC_DIGITS, v)
    IN  IF ascale <= 0 THEN Decimal(value, FALSE)
        ELSE IF dig < 0 \/ dig >= NBASE THEN Decimal(value, TRUE)
        ELSE IF ascale >= DEC_DIGITS THEN next(NBASE * value + dig)
        ELSE IF ascale = 3 THEN next(1000 * value + dig \div 10)
        ELSE IF ascale = 2 THEN next(100 * value + dig \div 100)
        ELSE IF ascale = 1 THEN next(10 * value + dig \div 1000)
        ELSE Decimal(value, TRUE)

\* "makes integer portion first", from digit d on, then the fraction. The int128
\* keeps the low 128 bits of NBASE * value: NBASE^32 is a multiple of 2^128, so
\* 32 or more passes behind the last digit leave it 0, and the loop ends at
\* d = weight + 1
RECURSIVE DecimalInteger(_, _, _, _, _, _)
DecimalInteger(addr, ndigits, weight, d, ascale, value) ==
    LET dig == IF d < ndigits THEN ntohs(addr, 8 + 2 * d) ELSE 0
    IN  IF d > weight THEN DecimalFraction(addr, ndigits, d, ascale, value)
        ELSE IF d >= ndigits /\ weight - d + 1 >= 32
        THEN DecimalFraction(addr, ndigits, weight + 1, ascale, 0)
        ELSE IF dig < 0 \/ dig >= NBASE THEN Decimal(value, TRUE)
        ELSE DecimalInteger(addr, ndigits, weight, d + 1, ascale, NBASE * value + dig)

put_decimal_value(attr, row_index, addr) ==
    LET result(a, elog) == PutResult(a, InlineUsage(a), elog)
        negative(sign, v) == IF BitAnd(sign, NUMERIC_NEG) # 0 THEN -v ELSE v
        store(sign, r) ==
            IF r.elog THEN result(attr, TRUE)
            ELSE result(PutInline(attr, row_index, FALSE, 16,
                                  LE128(negative(sign, r.value), 16)), FALSE)
        convert(ndigits, weight, sign) ==
            IF BitAnd(sign, NUMERIC_SIGN_MASK) = NUMERIC_NAN
            THEN result(attr, TRUE)
            ELSE store(sign, DecimalInteger(addr, ndigits, weight, 0,
                                            attr.arrow_type.scale, 0))
    IN  IF addr = NULL
        THEN result(PutInline(attr, row_index, TRUE, 16, <<>>), FALSE)
        ELSE convert(ntohs(addr, 0), ntohs(addr, 2), ntohs(addr, 4))

RECURSIVE put_value(_, _, _)
RECURSIVE put_composite_null(_, _, _, _)
RECURSIVE put_composite_fields(_, _, _, _, _, _, _)

\* put_composite_value, addr == NULL: "null for all the subtypes", from field j on
put_composite_null(subtypes, j, row_index, usage) ==
    LET next(r) ==
            IF r.elog
            THEN [subtypes |-> subtypes, usage |-> usage, elog |-> TRUE]
            ELSE put_composite_null([subtypes EXCEPT ![j] = r.attr],
                                    j + 1, row_index, usage + r.usage)
    IN  IF j > Len(subtypes)
        THEN [subtypes |-> subtypes, usage |-> usage, elog |-> FALSE]
        ELSE next(put_value(subtypes[j], row_index, NULL))

\* put_composite_value, addr != NULL: the loop over the fields of record_send(),
\* pos counted in bytes from addr, j from 1
put_composite_fields(subtypes, j, row_index, addr, pos, nvalids, usage) ==
    LET sz     == Len(addr)
        stop   == [subtypes |-> subtypes, usage |-> usage, elog |-> TRUE]
        absent == j - 1 >= nvalids
        \* the position after the field, given what is passed to the field's put_value
        next(r, newpos) ==
            IF r.elog THEN stop
            ELSE put_composite_fields([subtypes EXCEPT ![j] = r.attr], j + 1,
                                      row_index, addr, newpos, nvalids, usage + r.usage)
        field(attlen) ==
            IF attlen # -1 /\ pos + 8 + attlen > sz
            THEN stop
            ELSE next(put_value(subtypes[j], row_index,
                                IF absent \/ attlen = -1 THEN NULL
                                ELSE SubSeq(addr, pos + 9, pos + 8 + attlen)),
                      IF absent THEN pos
                      ELSE IF attlen = -1 THEN pos + 8 ELSE pos + 8 + attlen)
    IN
    IF j > Len(subtypes)
    THEN [subtypes |-> subtypes, usage |-> usage, elog |-> FALSE]
    ELSE IF absent
    THEN field(-1)
    ELSE IF pos + 4 + 4 > sz
    THEN stop
    ELSE IF Int32At(ntohl(SubSeq(addr, pos + 1, pos + 4))) # subtypes[j].atttypid
    THEN stop
    ELSE field(Int32At(ntohl(SubSeq(addr, pos + 5, pos + 8))))

put_composite_value(attr, row_index, addr) ==
    LET result(a, r) == PutResult([a EXCEPT !.subtypes = r.subtypes], r.usage, r.elog)
        null(a) ==
            result(a, put_composite_null(a.subtypes, 1, row_index,
                                         ARROWALIGN(a.nullmap.usage)))
        valid(a) ==
            IF Len(addr) < 4
            THEN PutResult(a, 0, TRUE)
            ELSE result(a, put_composite_fields(
                               a.subtypes, 1, row_index, addr, 4,
                               Int32At(ntohl(SubSeq(addr, 1, 4))),
                               IF a.nullcount > 0
                               THEN ARROWALIGN(a.nullmap.usage) ELSE 0))
    IN  IF addr = NULL
        THEN null([attr EXCEPT !.nullcount = @ + 1,
                               !.nullmap = sql_buffer_clrbit(@, row_index)])
        ELSE valid([attr EXCEPT !.nullmap = sql_buffer_setbit(@, row_index)])

\* attr->put_value(attr, row_index, addr, sz), sz being Len(addr)
put_value(attr, row_index, addr) ==
    CASE attr.put_value = "put_inline_32b_value" ->
             put_inline_32b_value(attr, row_index, addr)
      [] attr.put_value = "put_variable_value" ->
             put_variable_value(attr, row_index, addr)
      [] attr.put_value = "put_composite_value" ->
             put_composite_value(attr, row_index, addr)
      [] attr.put_value = "put_inline_8b_value" ->
             put_inline_8b_value(attr, row_index, addr)
      [] attr.put_value = "put_inline_16b_value" ->
             put_inline_16b_value(attr, row_index, addr)
      [] attr.put_value = "put_inline_64b_value" ->
             put_inline_64b_value(attr, row_index, addr)
      [] attr.put_value = "put_date_value" ->
             put_date_value(attr, row_index, addr)
      [] attr.put_value = "put_timestamp_value" ->
             put_timestamp_value(attr, row_index, addr)
      [] attr.put_value = "put_decimal_value" ->
             put_decimal_value(attr, row_index, addr)

stat_update_int32_value(attr, addr) ==
    LET max(a, value) ==
            IF a.max_isnull
            THEN [a EXCEPT !.max_isnull = FALSE, !.max_value = value]
            ELSE IF value > a.max_value
            THEN [a EXCEPT !.max_value = value]
            ELSE a
        min(a, value) ==
            IF a.min_isnull
            THEN [a EXCEPT !.min_isnull = FALSE, !.min_value = value]
            ELSE IF value < a.min_value
            THEN [a EXCEPT !.min_value = value]
            ELSE a
        update(value) == max(min(attr, value), value)
    IN  IF addr = NULL THEN attr ELSE update(Int32At(addr))

\* STAT_UPDATE_INLINE_TEMPLATE: value = *((const TYPENAME *)addr), kept through
\* Decode, and compared through Less
STAT_UPDATE_INLINE_TEMPLATE(attr, addr, Decode(_), Less(_, _)) ==
    LET min(a, value) ==
            IF a.min_isnull
            THEN [a EXCEPT !.min_isnull = FALSE, !.min_value = value]
            ELSE IF Less(value, a.min_value)
            THEN [a EXCEPT !.min_value = value]
            ELSE a
        max(a, value) ==
            IF a.max_isnull
            THEN [a EXCEPT !.max_isnull = FALSE, !.max_value = value]
            ELSE IF Less(a.max_value, value)
            THEN [a EXCEPT !.max_value = value]
            ELSE a
        update(value) == max(min(attr, value), value)
    IN  IF addr = NULL THEN attr ELSE update(Decode(addr))

\* a signed integer of one or two bytes read from memory
Int8At(b) == IF b[1] >= 128 THEN b[1] - 256 ELSE b[1]

SignedInt16At(b) == Int8At(<<b[2]>>) * 256 + b[1]

IntLess(a, b) == a < b

\* a 64-bit integer stays the 8 bytes it is in memory; a < b, signed, from the
\* most significant byte down
First8(b) == SubSeq(b, 1, 8)

RECURSIVE Less64From(_, _, _)
Less64From(a, b, k) ==
    IF k = 0 THEN FALSE
    ELSE IF a[k] # b[k]
    THEN (IF k = 8 THEN Int8At(<<a[k]>>) < Int8At(<<b[k]>>) ELSE a[k] < b[k])
    ELSE Less64From(a, b, k - 1)

Less64(a, b) == Less64From(a, b, 8)

stat_update_int8_value(attr, addr) ==
    STAT_UPDATE_INLINE_TEMPLATE(attr, addr, Int8At, IntLess)

stat_update_int16_value(attr, addr) ==
    STAT_UPDATE_INLINE_TEMPLATE(attr, addr, SignedInt16At, IntLess)

stat_update_int64_value(attr, addr) ==
    STAT_UPDATE_INLINE_TEMPLATE(attr, addr, First8, Less64)

stat_update(attr, addr) ==
    CASE attr.stat_update = "stat_update_int32_value" ->
             stat_update_int32_value(attr, addr)
      [] attr.stat_update = "stat_update_int8_value" ->
             stat_update_int8_value(attr, addr)
      [] attr.stat_update = "stat_update_int16_value" ->
             stat_update_int16_value(attr, addr)
      [] attr.stat_update = "stat_update_int64_value" ->
             stat_update_int64_value(attr, addr)
      [] OTHER -> attr

(***************************************************************************)
(* The row source: what libpq hands over for one tuple, binary format      *)
(***************************************************************************)
NullValue == [isnull |-> TRUE, v |-> 0, bytes |-> <<>>, nvalids |-> 0, fields |-> <<>>]

Int4Value(v) == [NullValue EXCEPT !.isnull = FALSE, !.v = v]

TextValue(bytes) == [NullValue EXCEPT !.isnull = FALSE, !.bytes = bytes]

RecordValue(nvalids, fields) ==
    [NullValue EXCEPT !.isnull = FALSE, !.nvalids = nvalids, !.fields = fields]

RECURSIVE Fill(_, _)
Fill(n, byte) == IF n <= 0 THEN <<>> ELSE <<byte>> \o Fill(n - 1, byte)

RECURSIVE PQgetvalue(_, _)
RECURSIVE record_send(_, _, _, _)

\* record_send(): per column the type oid, then the length (-1 for null) and the data
record_send(subtypes, fields, j, nvalids) ==
    IF j > nvalids THEN <<>>
    ELSE BE32(subtypes[j].atttypid)
           \o (IF fields[j].isnull
               THEN BE32(-1)
               ELSE LET sized(data) == BE32(Len(data)) \o data
                    IN  sized(PQgetvalue(subtypes[j], fields[j])))
           \o record_send(subtypes, fields, j + 1, nvalids)

\* the payload of a non-null value of the column attr
PQgetvalue(attr, value) ==
    CASE attr.put_value = "put_inline_32b_value" -> BE32(value.v)
      [] attr.put_value = "put_variable_value" -> value.bytes
      [] attr.put_value \in {"put_inline_8b_value", "put_inline_16b_value",
                             "put_inline_64b_value", "put_date_value",
                             "put_timestamp_value", "put_decimal_value"} -> value.bytes
      [] attr.put_value = "put_composite_value" ->
             BE32(value.nvalids) \o record_send(attr.subtypes, value.fields, 1, value.nvalids)

\* addr as pgsql_append_results passes it to put_value and stat_update
Addr(attr, value) == IF value.isnull THEN NULL ELSE PQgetvalue(attr, value)

\* what PostgreSQL sends for an int2 or a numeric header field
BE16(v) == <<v \div 256, v % 256>>

\* the base-NBASE digits of v > 0, most significant first, as numeric_send()
\* sends them
RECURSIVE NumericDigits(_)
NumericDigits(v) ==
    IF v = 0 THEN <<>> ELSE NumericDigits(v \div NBASE) \o BE16(v % NBASE)

\* a numeric keeps no zero digit at its end
RECURSIVE StripZeroDigits(_)
StripZeroDigits(digits) ==
    IF digits # <<>> /\ SubSeq(digits, Len(digits) - 1, Len(digits)) = <<0, 0>>
    THEN StripZeroDigits(SubSeq(digits, 1, Len(digits) - 2))
    ELSE digits

\* numeric_send() for the integer of magnitude v: ndigits, weight, sign, dscale
\* and the digits
numeric_send(v, sign) ==
    LET send(all, digits) ==
            BE16(Len(digits) \div 2)
              \o BE16(IF all = <<>> THEN 0 ELSE Len(all) \div 2 - 1)
              \o BE16(sign) \o BE16(0) \o digits
    IN  send(NumericDigits(v), StripZeroDigits(NumericDigits(v)))

NumericValue(v, sign) ==
    [NullValue EXCEPT !.isnull = FALSE, !.v = v, !.bytes = numeric_send(v, sign)]

BoolInputs == {NullValue, TextValue(<<1>>)}

Int2Inputs == {NullValue, TextValue(BE16(7))}

Int8Inputs == {NullValue, TextValue(BE32(0) \o BE32(7))}

DateInputs == {NullValue, TextValue(BE32(6879))}

TimestampInputs == {NullValue, TextValue(BE32(1) \o BE32(7))}

NumericInputs ==
    {NullValue, NumericValue(0, NUMERIC_NAN)}
      \cup {NumericValue(v, sign) :
               v \in {0, 1, 9999, 10000, 19999, 12340000, 99999999},
               sign \in {0, NUMERIC_NEG}}

Int4Inputs == {NullValue, Int4Value(7)}

TextInputs == {NullValue, TextValue(<<97>>), TextValue(Fill(40, 120))}

RecordInputs ==
    {NullValue,
     RecordValue(2, <<Int4Value(5), TextValue(<<104, 105>>)>>),
     RecordValue(2, <<NullValue, TextValue(Fill(40, 121))>>),
     RecordValue(1, <<Int4Value(5), NullValue>>)}

\* the inputs a column can receive
Inputs(attr) ==
    CASE attr.put_value = "put_inline_32b_value" -> Int4Inputs
      [] attr.put_value = "put_variable_value" -> TextInputs
      [] attr.put_value = "put_composite_value" -> RecordInputs
      [] attr.put_value = "put_inline_8b_value" -> BoolInputs
      [] attr.put_value = "put_inline_16b_value" -> Int2Inputs
      [] attr.put_value = "put_inline_64b_value" -> Int8Inputs
      [] attr.put_value = "put_date_value" -> DateInputs
      [] attr.put_value = "put_timestamp_value" -> TimestampInputs
      [] attr.put_value = "put_decimal_value" -> NumericInputs

\* the tuples a result of one or of two columns can hold
Tuples(attrs) ==
    IF Len(attrs) = 1
    THEN {<<x>> : x \in Inputs(attrs[1])}
    ELSE {<<x, y>> : x \in Inputs(attrs[1]), y \in Inputs(attrs[2])}

(***************************************************************************)
(* SQLtable                                                                *)
(***************************************************************************)
pgsql_create_buffer(attrs, segment_sz, nrooms) ==
    [segment_sz |-> segment_sz, nrooms |-> nrooms, nitems |-> 0,
     nfields |-> Len(attrs), attrs |-> attrs,
     recordBatches |-> <<>>, dictionaries |-> <<>>]

\* SELECT i::int4
OneColumn == <<Int4Attr(<<105>>)>>

\* SELECT i::int4, u::text
FlatColumns == <<Int4Attr(<<105>>), TextAttr(<<117>>)>>

\* SELECT u::text, s::sometype   with   CREATE TYPE sometype AS (a int4, b text)
StructColumns ==
    <<TextAttr(<<117>>),
      CompositeAttr(<<115>>, <<Int4Attr(<<97>>), TextAttr(<<98>>)>>)>>

\* the result sets and the segment sizes (-s) explored
Configs ==
    {[attrs |-> OneColumn, segment_sz |-> 64],
     [attrs |-> FlatColumns, segment_sz |-> 128],
     [attrs |-> FlatColumns, segment_sz |-> 192],
     [attrs |-> StructColumns, segment_sz |-> 256],
     [attrs |-> StructColumns, segment_sz |-> 320]}

RECURSIVE pgsql_clear_attribute(_, _)
RECURSIVE pgsql_clear_attributes(_, _, _)

pgsql_clear_attributes(attrs, j, build) ==
    IF j > Len(attrs) THEN attrs
    ELSE pgsql_clear_attributes(
             [attrs EXCEPT ![j] = pgsql_clear_attribute(attrs[j], build)], j + 1, build)

\* query.c also clears the statistics, buffer.c has none
pgsql_clear_attribute(attr, build) ==
    LET statistics(a) ==
            IF build = "query"
            THEN [a EXCEPT !.min_isnull = TRUE, !.max_isnull = TRUE,
                           !.min_value = 0, !.max_value = 0]
            ELSE a
    IN  statistics([attr EXCEPT !.nullcount = 0,
                                !.nullmap = sql_buffer_clear(@),
                                !.values = sql_buffer_clear(@),
                                !.extra = sql_buffer_clear(@),
                                !.subtypes = pgsql_clear_attributes(@, 1, build)])

\* mutation: the write out leaves nitems as it is
pgsql_writeout_buffer_keeps_nitems(t, build) ==
    [t EXCEPT !.attrs = pgsql_clear_attributes(t.attrs, 1, build)]

pgsql_writeout_buffer(t, build) ==
    [t EXCEPT !.nitems = 0, !.attrs = pgsql_clear_attributes(t.attrs, 1, build)]

\* what pgsql_writeout_buffer is handed
Snapshot(t) == [nitems |-> t.nitems, attrs |-> t.attrs]

\* the loop over the columns that calls put_value, from column j
RECURSIVE PutTuple(_, _, _, _, _)
PutTuple(attrs, j, nitems, tuple, usage) ==
    IF j > Len(attrs)
    THEN [attrs |-> attrs, usage |-> usage, elog |-> FALSE]
    ELSE LET next(r) ==
                 IF r.elog
                 THEN [attrs |-> [attrs EXCEPT ![j] = r.attr], usage |-> usage,
                       elog |-> TRUE]
                 ELSE PutTuple([attrs EXCEPT ![j] = r.attr], j + 1, nitems, tuple,
                               usage + r.usage)
         IN  next(put_value(attrs[j], nitems, Addr(attrs[j], tuple[j])))

\* "fixup NULL-count if last row updated it"
NullcountFixup(attrs, tuple) ==
    [j \in 1..Len(attrs) |->
        IF tuple[j].isnull THEN [attrs[j] EXCEPT !.nullcount = @ - 1] ELSE attrs[j]]

\* "update statistics"
StatUpdateTuple(attrs, tuple) ==
    [j \in 1..Len(attrs) |-> stat_update(attrs[j], Addr(attrs[j], tuple[j]))]

(***************************************************************************)
(* pgsql_append_results: one pass from the label retry to the end of the   *)
(* loop body (or to the goto), for the tuple given                         *)
(***************************************************************************)
NoBatch ==
    [made |-> FALSE, elog |-> FALSE, length |-> 0, nodes |-> <<>>, buffers |-> <<>>,
     bodyLength |-> 0, metaLength |-> 0]

NoMessage ==
    [made |-> FALSE, elog |-> FALSE, version |-> 0,
     body |-> [tag |-> "none", endianness |-> 0, fields |-> <<>>, length |-> 0,
               nodes |-> <<>>, buffers |-> <<>>],
     bodyLength |-> 0]

\* query.c
pgsql_append_results(tuple) ==
    LET threshold(r, fixed) ==
            /\ cur' = tuple
            /\ row_usage' = r.usage
            /\ UNCHANGED <<variant, rbatch, heap, file, node, writer, stdout, builder,
               sqlbuffer>>
            /\ IF r.elog \/ (r.usage > table.segment_sz /\ table.nitems = 0)
               THEN /\ pc' = "fatal"
                    /\ table' = [table EXCEPT !.attrs = r.attrs]
                    /\ UNCHANGED <<consumed, flushed>>
               ELSE IF r.usage > table.segment_sz
               THEN /\ flushed' = Append(flushed, Snapshot(fixed))
                    /\ table' = pgsql_writeout_buffer(fixed, "query")
                    /\ pc' = "retry"
                    /\ UNCHANGED consumed
               ELSE /\ table' = [table EXCEPT
                                    !.attrs = StatUpdateTuple(r.attrs, tuple),
                                    !.nitems = @ + 1]
                    /\ consumed' = consumed + 1
                    /\ pc' = "next"
                    /\ UNCHANGED flushed
        put(r) == threshold(r, [table EXCEPT !.attrs = NullcountFixup(r.attrs, tuple)])
    IN  put(PutTuple(table.attrs, 1, table.nitems, tuple, 0))

\* buffer.c
pgsql_append_results_buffer(tuple) ==
    LET threshold(r, t, t1) ==
            /\ cur' = tuple
            /\ row_usage' = r.usage
            /\ UNCHANGED <<variant, rbatch, heap, file, node, writer, stdout, builder,
               sqlbuffer>>
            /\ IF r.elog \/ (table.nrooms = 0 /\ table.segment_sz = 0)
               THEN /\ pc' = "fatal"
                    /\ table' = t
                    /\ UNCHANGED <<consumed, flushed>>
               ELSE IF table.nrooms > 0
               THEN /\ consumed' = consumed + 1
                    /\ pc' = "next"
                    /\ IF t1.nitems >= t1.nrooms
                       THEN /\ flushed' = Append(flushed, Snapshot(t1))
                            /\ table' = pgsql_writeout_buffer(t1, "buffer")
                       ELSE /\ table' = t1
                            /\ UNCHANGED flushed
               ELSE IF r.usage > table.segment_sz
               THEN /\ flushed' = Append(flushed, Snapshot(t))
                    /\ table' = pgsql_writeout_buffer(t, "buffer")
                    /\ pc' = "retry"
                    /\ UNCHANGED consumed
               ELSE /\ table' = t1
                    /\ consumed' = consumed + 1
                    /\ pc' = "next"
                    /\ UNCHANGED flushed
        put(r) == threshold(r, [table EXCEPT !.attrs = r.attrs],
                            [table EXCEPT !.attrs = r.attrs, !.nitems = @ + 1])
    IN  put(PutTuple(table.attrs, 1, table.nitems, tuple, 0))

(***************************************************************************)
(* The layout of a record batch: FieldNode and Buffer vectors              *)
(***************************************************************************)
__setupArrowFieldNode(nitems, attr) ==
    [length |-> nitems, null_count |-> attr.nullcount]

ArrowBuffer(offset, length) == [offset |-> offset, length |-> length]

\* what a layout function hands back: the entries it filled, the running
\* offset and whether it ended in Elog()
Layout(buffers, offset, elog) == [buffers |-> buffers, offset |-> offset, elog |-> elog]

\* arrow_read.c: the entries of one attribute, from the running offset
__setupArrowBuffer(attr, offset) ==
    LET nullmap == IF attr.nullcount = 0 THEN 0 ELSE MAXALIGN(attr.nullmap.usage)
        values  == MAXALIGN(attr.values.usage)
        extra   == MAXALIGN(attr.extra.usage)
    IN  CASE attr.arrow_type.tag \in {"Int", "FloatingPoint", "Bool", "Date", "Time",
                                      "Timestamp", "Interval"} ->
                 Layout(<<ArrowBuffer(offset, nullmap),
                          ArrowBuffer(offset + nullmap, values)>>,
                        offset + nullmap + values, FALSE)
          [] attr.arrow_type.tag \in {"Binary", "Utf8"} ->
                 Layout(<<ArrowBuffer(offset, nullmap),
                          ArrowBuffer(offset + nullmap, values),
                          ArrowBuffer(offset + nullmap + values, extra)>>,
                        offset + nullmap + values + extra, FALSE)
          [] OTHER -> Layout(<<>>, offset, TRUE)

\* arrow_types.c: the entry of one buffer and the length the offset advances by
setup_arrow_buffer(offset, length) == ArrowBuffer(offset, MAXALIGN(length))

setup_buffer_inline_type(attr, offset) ==
    LET nullmap == setup_arrow_buffer(offset,
                                      IF attr.nullcount = 0 THEN 0 ELSE attr.nullmap.usage)
        values(o) == setup_arrow_buffer(o, attr.values.usage)
        both(n, v) == Layout(<<n, v>>, v.offset + v.length, FALSE)
    IN  both(nullmap, values(offset + nullmap.length))

setup_buffer_varlena_type(attr, offset) ==
    LET nullmap == setup_arrow_buffer(offset,
                                      IF attr.nullcount = 0 THEN 0 ELSE attr.nullmap.usage)
        values(o) == setup_arrow_buffer(o, attr.values.usage)
        extra(o) == setup_arrow_buffer(o, attr.extra.usage)
        all(n, v, e) == Layout(<<n, v, e>>, e.offset + e.length, FALSE)
        index(n, v) == all(n, v, extra(v.offset + v.length))
    IN  index(nullmap, values(offset + nullmap.length))

RECURSIVE setup_buffer(_, _)
RECURSIVE setup_buffer_subtypes(_, _, _)

\* "walk down the sub-types", from sub-type i on, after the entries in done
setup_buffer_subtypes(subtypes, i, done) ==
    LET next(r) ==
            setup_buffer_subtypes(subtypes, i + 1,
                                  Layout(done.buffers \o r.buffers, r.offset,
                                         done.elog \/ r.elog))
    IN  IF i > Len(subtypes) \/ done.elog
        THEN done
        ELSE next(setup_buffer(subtypes[i], done.offset))

setup_buffer_composite_type(attr, offset) ==
    LET nullmap == setup_arrow_buffer(offset,
                                      IF attr.nullcount = 0 THEN 0 ELSE attr.nullmap.usage)
    IN  setup_buffer_subtypes(attr.subtypes, 1,
                              Layout(<<nullmap>>, offset + nullmap.length, FALSE))

\* attr->setup_buffer(attr, node, p_offset), the handler assignArrowType chose
setup_buffer(attr, offset) ==
    CASE attr.arrow_type.tag \in {"Binary", "Utf8"} -> setup_buffer_varlena_type(attr, offset)
      [] attr.arrow_type.tag = "Struct" -> setup_buffer_composite_type(attr, offset)
      [] OTHER -> setup_buffer_inline_type(attr, offset)

\* the loops of writeArrowRecordBatch over table->attrs
FieldNodes(t) == [i \in 1..t.nfields |-> __setupArrowFieldNode(t.nitems, t.attrs[i])]

RECURSIVE Buffers(_, _, _)
Buffers(attrs, i, done) ==
    LET next(r) ==
            Buffers(attrs, i + 1,
                    Layout(done.buffers \o r.buffers, r.offset, done.elog \/ r.elog))
    IN  IF i > Len(attrs) \/ done.elog
        THEN done
        ELSE next(__setupArrowBuffer(attrs[i], done.offset))

\* the first n bytes at buf->ptr: an anonymous mapping is zero where never written
Region(buf, n) == [k \in 1..n |-> IF k <= Len(buf.data) THEN buf.data[k] ELSE 0]

\* the same for a bitmap: byte k holds the bits 8(k-1) .. 8(k-1)+7
RECURSIVE Bits(_, _, _)
Bits(data, k, b) ==
    IF b > 7 THEN 0
    ELSE (IF 8 * (k - 1) + b \in data THEN 2 ^ b ELSE 0) + Bits(data, k, b + 1)

BitmapRegion(buf, n) == [k \in 1..n |-> Bits(buf.data, k, 0)]

\* the bytes writeArrowBodyOfAttribute hands to write(2)
writeArrowBodyOfAttribute(attr) ==
    LET nullmap == IF attr.nullcount > 0
                   THEN BitmapRegion(attr.nullmap, MAXALIGN(attr.nullmap.usage))
                   ELSE <<>>
        values  == Region(attr.values, MAXALIGN(attr.values.usage))
        extra   == Region(attr.extra, MAXALIGN(attr.extra.usage))
    IN  IF attr.arrow_type.tag \in {"Binary", "Utf8"}
        THEN nullmap \o values \o extra
        ELSE nullmap \o values

RECURSIVE Body(_, _)
Body(attrs, i) ==
    IF i > Len(attrs) THEN <<>>
    ELSE writeArrowBodyOfAttribute(attrs[i]) \o Body(attrs, i + 1)

(***************************************************************************)
(* FBTableBuf: the FlatBuffer table under construction.  index counts from *)
(* 0 as in the source; table holds the tlen bytes of the table area.       *)
(***************************************************************************)
LE16(v) == <<v % 256, v \div 256>>

\* the bytes of a signed 64-bit integer that fits 32 bits
LE64(v) == LE32(v) \o (IF v < 0 THEN <<255, 255, 255, 255>> ELSE <<0, 0, 0, 0>>)

__allocFBTableBuf(nattrs) ==
    [isnull    |-> FALSE,
     elog      |-> FALSE,
     nattrs    |-> nattrs,
     length    |-> -1,
     vlen      |-> 4,
     tlen      |-> 4,
     offset    |-> [i \in 1..nattrs |-> 0],
     table     |-> Zeros(4),
     extra_buf |-> [i \in 1..nattrs |-> NULL],
     extra_sz  |-> [i \in 1..nattrs |-> 0],
     image     |-> <<>>]

\* FBTableBuf *buf = NULL
NullFBTableBuf == [__allocFBTableBuf(0) EXCEPT !.isnull = TRUE]

\* a table whose construction ended the process in Elog()
ElogFBTableBuf == [__allocFBTableBuf(0) EXCEPT !.elog = TRUE]

\* no FBTableBuf is under construction
NoBuilder == [buf |-> NullFBTableBuf, puts |-> <<>>]

__addBufferScalar(buf, index, ptr, sz, align) ==
    LET put(offset) ==
            [buf EXCEPT !.table = @ \o Zeros(offset - buf.tlen) \o SubSeq(ptr, 1, sz),
                        !.offset[index + 1] = offset,
                        !.tlen = offset + sz,
                        !.vlen = Max(@, 4 + 2 * (index + 1))]
    IN  IF ptr = NULL \/ sz = 0
        THEN [buf EXCEPT !.offset[index + 1] = 0]
        ELSE put(TYPEALIGN(align, buf.tlen))

__addBufferBinary(buf, index, ptr, sz, shift) ==
    IF ptr = NULL \/ sz = 0
    THEN [buf EXCEPT !.offset[index + 1] = 0]
    ELSE __addBufferScalar([buf EXCEPT !.extra_buf[index + 1] = ptr,
                                       !.extra_sz[index + 1] = sz],
                           index, LE32(shift), 4, 4)

addBufferBool(buf, index, value) ==
    IF value THEN __addBufferScalar(buf, index, <<1>>, 1, 1) ELSE buf

addBufferChar(buf, index, value) ==
    IF value # 0 THEN __addBufferScalar(buf, index, <<value % 256>>, 1, 1) ELSE buf

addBufferShort(buf, index, value) ==
    IF value # 0 THEN __addBufferScalar(buf, index, LE16(value % 65536), 2, 2) ELSE buf

addBufferInt(buf, index, value) ==
    IF value # 0 THEN __addBufferScalar(buf, index, LE32(value), 4, 4) ELSE buf

addBufferLong(buf, index, value) ==
    IF value # 0 THEN __addBufferScalar(buf, index, LE64(value), 8, 8) ELSE buf

\* cstring: the bytes before the terminating NUL, or NULL
addBufferString(buf, index, cstring) ==
    IF cstring # NULL /\ Len(cstring) > 0
    THEN __addBufferBinary(buf, index,
                           LE32(Len(cstring)) \o cstring
                             \o Zeros(INTALIGN(Len(cstring) + 1) - Len(cstring)),
                           4 + INTALIGN(Len(cstring) + 1), 0)
    ELSE buf

\* mutation: the shift to the table of the sub-buffer is left out
addBufferOffset_without_shift(buf, index, sub) ==
    IF sub.isnull THEN buf
    ELSE IF sub.elog \/ sub.length < 0 THEN [buf EXCEPT !.elog = TRUE]
    ELSE __addBufferBinary(buf, index, sub.image, sub.length, 0)

addBufferOffset(buf, index, sub) ==
    IF sub.isnull THEN buf
    ELSE IF sub.elog \/ sub.length < 0 THEN [buf EXCEPT !.elog = TRUE]
    ELSE __addBufferBinary(buf, index, sub.image, sub.length, sub.vlen)

\* the loop of addBufferVector that lays the elements out behind the offsets:
\* pos counts from the start of the vector, i from 1
RECURSIVE VectorElements(_, _, _)
VectorElements(elements, i, pos) ==
    LET gap == INTALIGN(pos + elements[i].vlen) - (pos + elements[i].vlen)
        rest(r) ==
            [offsets |-> <<(pos + gap + elements[i].vlen) - 4 * i>> \o r.offsets,
             bytes   |-> Zeros(gap) \o elements[i].image \o r.bytes,
             pos     |-> r.pos]
    IN  IF i > Len(elements)
        THEN [offsets |-> <<>>, bytes |-> <<>>, pos |-> pos]
        ELSE rest(VectorElements(elements, i + 1, pos + gap + elements[i].length))

RECURSIVE LE32s(_)
LE32s(values) == IF values = <<>> THEN <<>> ELSE LE32(Head(values)) \o LE32s(Tail(values))

\* build: "arrow_read.c" or "arrow_write.c", which returns at once when nitems == 0
addBufferVector(buf, index, nitems, elements, build) ==
    LET add(r) ==
            __addBufferBinary(buf, index, LE32(nitems) \o LE32s(r.offsets) \o r.bytes,
                              r.pos, 0)
    IN  IF build = "arrow_write.c" /\ nitems = 0 THEN buf
        ELSE IF \E i \in 1..nitems : elements[i].elog \/ elements[i].length < 0
        THEN [buf EXCEPT !.elog = TRUE]
        ELSE add(VectorElements(elements, 1, 4 + 4 * nitems))

\* the bytes of the vtable: vlen, tlen and the offsets that vlen covers
RECURSIVE LE16s(_, _, _)
LE16s(offset, i, n) ==
    IF i > n THEN <<>> ELSE LE16(offset[i]) \o LE16s(offset, i + 1, n)

\* the loop of __makeBufferFlatten over the extra buffers, from attribute i on:
\* img is the image so far (pos = Len(img), counted from &buf->vtable); a pad
\* behind an extra buffer is memory that nothing has written since repalloc()
RECURSIVE FlattenExtras(_, _, _)
FlattenExtras(buf, i, img) ==
    LET slot == buf.vlen + buf.offset[i]
        patch(shift) ==
            Poke(img, slot, LE32((Len(img) - slot) + shift))
              \o SubSeq(buf.extra_buf[i], 1, buf.extra_sz[i])
              \o Fill(INTALIGN(buf.extra_sz[i]) - buf.extra_sz[i], heap)
    IN  IF i > buf.nattrs THEN img
        ELSE IF buf.extra_buf[i] = NULL THEN FlattenExtras(buf, i + 1, img)
        ELSE FlattenExtras(buf, i + 1,
                           patch(Int32At(SubSeq(img, slot + 1, slot + 4))))

__makeBufferFlatten(buf) ==
    LET base == LE16(buf.vlen) \o LE16(buf.tlen)
                  \o LE16s(buf.offset, 1, (buf.vlen - 4) \div 2)
                  \o LE32(buf.vlen) \o SubSeq(buf.table, 5, buf.tlen)
        flat(img) == [buf EXCEPT !.image = img, !.length = Len(img)]
    IN  IF buf.elog THEN buf
        ELSE IF \A i \in 1..buf.nattrs : buf.extra_buf[i] = NULL
        THEN flat(base)
        ELSE flat(FlattenExtras(buf, 1, base \o Zeros(INTALIGN(buf.tlen) - buf.tlen)))

(***************************************************************************)
(* The Arrow metadata nodes and their FlatBuffer encoders.  build names    *)
(* the file the encoder is taken from: "arrow_read.c" or "arrow_write.c".  *)
(***************************************************************************)
ArrowMetadataVersion__V4 == 3

ArrowMessageHeader__Schema == 1

ArrowMessageHeader__RecordBatch == 3

ArrowEndianness__Little == 0

ArrowType__Binary == 4

ArrowType__Utf8 == 5

ArrowType__Bool == 6

ArrowType__Decimal == 7

ArrowType__Date == 8

ArrowType__Time == 9

ArrowType__Timestamp == 10

ArrowType__Struct == 13

ArrowType__Int == 2

ArrowType__FloatingPoint == 3

RECURSIVE __setupArrowField(_)
__setupArrowField(attr) ==
    [name       |-> attr.attname,
     nullable   |-> TRUE,
     type       |-> attr.arrow_type,
     dictionary |-> [id |-> 0],
     children   |-> [i \in 1..Len(attr.subtypes) |-> __setupArrowField(attr.subtypes[i])]]

ArrowSchema(t) ==
    [tag        |-> "Schema",
     endianness |-> ArrowEndianness__Little,
     fields     |-> [i \in 1..t.nfields |-> __setupArrowField(t.attrs[i])],
     length     |-> 0,
     nodes      |-> <<>>,
     buffers    |-> <<>>]

ArrowRecordBatch(length, nodes, buffers) ==
    [tag        |-> "RecordBatch",
     endianness |-> 0,
     fields     |-> <<>>,
     length     |-> length,
     nodes      |-> nodes,
     buffers    |-> buffers]

ArrowMessage(body, bodyLength) ==
    [version |-> ArrowMetadataVersion__V4, body |-> body, bodyLength |-> bodyLength]

createArrowTypeInt(type) ==
    __makeBufferFlatten(
        addBufferBool(addBufferInt(__allocFBTableBuf(2), 0, type.bitWidth),
                      1, type.is_signed))

createArrowTypeFloatingPoint(type) ==
    __makeBufferFlatten(addBufferInt(__allocFBTableBuf(1), 0, type.precision))

\* the table of the type and *p_type_tag
createArrowType(type) ==
    CASE type.tag = "Int" ->
             [buf |-> createArrowTypeInt(type), type_tag |-> ArrowType__Int]
      [] type.tag = "FloatingPoint" ->
             [buf |-> createArrowTypeFloatingPoint(type),
              type_tag |-> ArrowType__FloatingPoint]
      [] OTHER -> [buf |-> ElogFBTableBuf, type_tag |-> 0]

createArrowDictionaryEncoding(dictionary) ==
    IF dictionary.id = 0
    THEN NullFBTableBuf
    ELSE __makeBufferFlatten(addBufferLong(__allocFBTableBuf(3), 0, dictionary.id))

RECURSIVE createArrowField(_, _)
createArrowField(field, build) ==
    LET children(buf) ==
            IF build = "arrow_write.c" /\ Len(field.children) = 0
            THEN buf
            ELSE addBufferVector(buf, 5, Len(field.children),
                                 [i \in 1..Len(field.children) |->
                                     createArrowField(field.children[i], build)],
                                 build)
        dictionary(buf) ==
            addBufferOffset(buf, 4, createArrowDictionaryEncoding(field.dictionary))
        type(buf, t) ==
            addBufferOffset(addBufferChar(buf, 2, t.type_tag), 3, t.buf)
    IN  __makeBufferFlatten(
            children(dictionary(type(
                addBufferBool(addBufferString(__allocFBTableBuf(7), 0, field.name),
                              1, field.nullable),
                createArrowType(field.type)))))

createArrowSchema(schema, build) ==
    LET fields(buf) ==
            IF Len(schema.fields) > 0
            THEN addBufferVector(buf, 1, Len(schema.fields),
                                 [i \in 1..Len(schema.fields) |->
                                     createArrowField(schema.fields[i], build)],
                                 build)
            ELSE buf
    IN  __makeBufferFlatten(
            fields(addBufferBool(__allocFBTableBuf(3), 0, schema.endianness # 0)))

\* a packed vector of pairs of int64 behind its int32 count
RECURSIVE PackedPairs(_, _)
PackedPairs(pairs, i) ==
    IF i > Len(pairs) THEN <<>>
    ELSE LE64(pairs[i][1]) \o LE64(pairs[i][2]) \o PackedPairs(pairs, i + 1)

addBufferArrowBufferVector(buf, index, nitems, arrow_buffers) ==
    __addBufferBinary(buf, index,
                      LE32(nitems) \o PackedPairs([i \in 1..nitems |->
                                                      <<arrow_buffers[i].offset,
                                                        arrow_buffers[i].length>>], 1),
                      4 + 16 * nitems, 0)

addBufferArrowFieldNodeVector(buf, index, nitems, elements) ==
    __addBufferBinary(buf, index,
                      LE32(nitems) \o PackedPairs([i \in 1..nitems |->
                                                      <<elements[i].length,
                                                        elements[i].null_count>>], 1),
                      4 + 16 * nitems, 0)

\* arrow_read.c stores the Buffer vector at field 2, arrow_write.c at field 1
createArrowRecordBatch(batch, build) ==
    __makeBufferFlatten(
        addBufferArrowBufferVector(
            addBufferArrowFieldNodeVector(
                addBufferLong(__allocFBTableBuf(3), 0, batch.length),
                1, Len(batch.nodes), batch.nodes),
            IF build = "arrow_write.c" THEN 1 ELSE 2,
            Len(batch.buffers), batch.buffers))

createArrowMessage(message, build) ==
    LET tag == IF message.body.tag = "Schema"
               THEN ArrowMessageHeader__Schema
               ELSE ArrowMessageHeader__RecordBatch
        data == IF message.body.tag = "Schema"
                THEN createArrowSchema(message.body, build)
                ELSE createArrowRecordBatch(message.body, build)
    IN  __makeBufferFlatten(
            addBufferLong(
                addBufferOffset(
                    addBufferChar(
                        addBufferShort(__allocFBTableBuf(4), 0, message.version),
                        1, tag),
                    2, data),
                3, message.bodyLength))

\* what a writer leaves behind: the bytes handed to write(2), or Elog()
Written(bytes, elog) == [bytes |-> bytes, elog |-> elog]

\* arrow_read.c
writeFlatBufferMessage(message) ==
    LET image(payload, offset, nbytes) ==
            Written(LE32(4 + nbytes) \o LE32(4 + INTALIGN(payload.vlen))
                      \o Zeros(offset) \o payload.image
                      \o Zeros(nbytes - (offset + payload.length)),
                    FALSE)
        gap(payload, offset) == image(payload, offset, INTALIGN(offset + payload.length))
        write(payload) ==
            IF payload.elog THEN Written(<<>>, TRUE)
            ELSE gap(payload, INTALIGN(payload.vlen) - payload.vlen)
    IN  write(createArrowMessage(message, "arrow_read.c"))

\* a writer whose length prefix is that of the payload without its padding
__writeFlatBufferMessage_unpadded_prefix(payload) ==
    LET tail(head) == Written(head \o Zeros(MAXALIGN(Len(head)) - Len(head)), FALSE)
        image(gap) ==
            tail(LE32(4 + payload.length) \o LE32(4 + gap + payload.vlen)
                   \o Zeros(gap) \o payload.image)
    IN  IF payload.elog THEN Written(<<>>, TRUE)
        ELSE image(INTALIGN(payload.vlen) - payload.vlen)

\* arrow_write.c
__writeFlatBufferMessage(payload) ==
    LET tail(head) == Written(head \o Zeros(MAXALIGN(Len(head)) - Len(head)), FALSE)
        image(gap) ==
            tail(LE32(4 + MAXALIGN(payload.length)) \o LE32(4 + gap + payload.vlen)
                   \o Zeros(gap) \o payload.image)
    IN  IF payload.elog THEN Written(<<>>, TRUE)
        ELSE image(INTALIGN(payload.vlen) - payload.vlen)

writeArrowSchema(t, build) ==
    IF build = "arrow_write.c"
    THEN __writeFlatBufferMessage(
             createArrowMessage(ArrowMessage(ArrowSchema(t), 0), "arrow_write.c"))
    ELSE writeFlatBufferMessage(ArrowMessage(ArrowSchema(t), 0))

\* arrow_read.c: the vectors, the message and the bytes of one record batch
writeArrowRecordBatch(t) ==
    LET done(nodes, l, w) ==
            [made       |-> TRUE,
             elog       |-> l.elog \/ w.elog,
             length     |-> t.nitems,
             nodes      |-> nodes,
             buffers    |-> l.buffers,
             bodyLength |-> l.offset,
             metaLength |-> Len(w.bytes),
             bytes      |-> IF l.elog \/ w.elog THEN <<>>
                            ELSE w.bytes \o Body(t.attrs, 1)]
        serialize(nodes, l) ==
            done(nodes, l,
                 IF l.elog THEN Written(<<>>, TRUE)
                 ELSE writeFlatBufferMessage(
                          ArrowMessage(ArrowRecordBatch(t.nitems, nodes, l.buffers),
                                       l.offset)))
    IN  serialize(FieldNodes(t), Buffers(t.attrs, 1, Layout(<<>>, 0, FALSE)))

(***************************************************************************)
(* The Footer                                                              *)
(***************************************************************************)
ArrowBlock(offset, metaDataLength, bodyLength) ==
    [offset |-> offset, metaDataLength |-> metaDataLength, bodyLength |-> bodyLength]

ArrowFooter(t) ==
    [version |-> ArrowMetadataVersion__V4, schema |-> ArrowSchema(t),
     dictionaries |-> t.dictionaries, recordBatches |-> t.recordBatches]

\* struct ArrowBlockVector, packed: per block an int64, two int32, an int64
RECURSIVE PackedBlocks(_, _)
PackedBlocks(blocks, i) ==
    IF i > Len(blocks) THEN <<>>
    ELSE LE64(blocks[i].offset) \o LE32(blocks[i].metaDataLength) \o LE32(0)
           \o LE64(blocks[i].bodyLength) \o PackedBlocks(blocks, i + 1)

addBufferArrowBlockVector(buf, index, nitems, arrow_blocks) ==
    __addBufferBinary(buf, index, LE32(nitems) \o PackedBlocks(arrow_blocks, 1),
                      4 + 24 * nitems, 0)

createArrowFooter(footer, build) ==
    __makeBufferFlatten(
        addBufferArrowBlockVector(
            addBufferArrowBlockVector(
                addBufferOffset(
                    addBufferShort(__allocFBTableBuf(4), 0, footer.version),
                    1, createArrowSchema(footer.schema, build)),
                2, Len(footer.dictionaries), footer.dictionaries),
            3, Len(footer.recordBatches), footer.recordBatches))

\* "ARROW1"
FooterSignature == <<65, 82, 82, 79, 87, 49>>

\* arrow_read.c: FBFooterFileImage, then FBFooterTailImage
writeFlatBufferFooter(footer) ==
    LET image(payload, offset, nbytes) ==
            Written(LE32(4 + INTALIGN(payload.vlen))
                      \o Zeros(offset) \o payload.image
                      \o Zeros(nbytes - (offset + payload.length))
                      \o LE32(nbytes + 4) \o FooterSignature,
                    FALSE)
        gap(payload, offset) == image(payload, offset, INTALIGN(offset + payload.length))
        write(payload) ==
            IF payload.elog THEN Written(<<>>, TRUE)
            ELSE gap(payload, INTALIGN(payload.vlen) - payload.vlen)
    IN  write(createArrowFooter(footer, "arrow_read.c"))

\* arrow_read.c sets the Footer up and writes it; in arrow_write.c the function
\* has an empty body
writeArrowFooter(t, build) ==
    IF build = "arrow_write.c" THEN Written(<<>>, FALSE)
    ELSE writeFlatBufferFooter(ArrowFooter(t))

(***************************************************************************)
(* The reader.  img is the mapped file, a position counts bytes from       *)
(* file_map_head, NULLPTR is the null pointer.                             *)
(***************************************************************************)
NULLPTR == -1

\* the byte at a position: the mapping is zero behind the end of the file
ByteAt(img, pos) == IF pos + 1 \in 1..Len(img) THEN img[pos + 1] ELSE 0

UInt16At(img, pos) == ByteAt(img, pos) + 256 * ByteAt(img, pos + 1)

Int16At(img, pos) ==
    IF UInt16At(img, pos) >= 32768 THEN UInt16At(img, pos) - 65536 ELSE UInt16At(img, pos)

Int32AtPos(img, pos) ==
    Int32At(<<ByteAt(img, pos), ByteAt(img, pos + 1), ByteAt(img, pos + 2),
              ByteAt(img, pos + 3)>>)

\* an int64 as the model holds it: exact when the value fits 32 bits
Int64AtPos(img, pos) ==
    IF Int32AtPos(img, pos + 4) \in {0, -1}
    THEN Int32AtPos(img, pos)
    ELSE 2147483647

fetchFBTable(img, p_table) ==
    [table |-> p_table, vtable |-> p_table - Int32AtPos(img, p_table)]

\* mutation: the length of the vtable is not looked at
__fetchPointer_ignores_vlen(img, t, index) ==
    IF UInt16At(img, t.vtable + 4 + 2 * index) # 0
    THEN t.table + UInt16At(img, t.vtable + 4 + 2 * index)
    ELSE NULLPTR

__fetchPointer(img, t, index) ==
    IF /\ 4 + 2 * index < UInt16At(img, t.vtable)
       /\ UInt16At(img, t.vtable + 4 + 2 * index) # 0
    THEN t.table + UInt16At(img, t.vtable + 4 + 2 * index)
    ELSE NULLPTR

fetchBool(img, t, index) ==
    LET value(ptr) == IF ptr # NULLPTR THEN ByteAt(img, ptr) # 0 ELSE FALSE
    IN  value(__fetchPointer(img, t, index))

fetchChar(img, t, index) ==
    LET int8(b) == IF b >= 128 THEN b - 256 ELSE b
        value(ptr) == IF ptr # NULLPTR THEN int8(ByteAt(img, ptr)) ELSE 0
    IN  value(__fetchPointer(img, t, index))

fetchShort(img, t, index) ==
    LET value(ptr) == IF ptr # NULLPTR THEN Int16At(img, ptr) ELSE 0
    IN  value(__fetchPointer(img, t, index))

fetchInt(img, t, index) ==
    LET value(ptr) == IF ptr # NULLPTR THEN Int32AtPos(img, ptr) ELSE 0
    IN  value(__fetchPointer(img, t, index))

fetchLong(img, t, index) ==
    LET value(ptr) == IF ptr # NULLPTR THEN Int64AtPos(img, ptr) ELSE 0
    IN  value(__fetchPointer(img, t, index))

fetchOffset(img, t, index) ==
    LET value(ptr) == IF ptr # NULLPTR THEN ptr + Int32AtPos(img, ptr) ELSE NULLPTR
    IN  value(__fetchPointer(img, t, index))

\* the bytes of the string (*p_strlen of them), none when the field is absent
fetchString(img, t, index) ==
    LET value(ptr) ==
            IF ptr = NULLPTR THEN <<>>
            ELSE [k \in 1..Int32AtPos(img, ptr) |-> ByteAt(img, ptr + 4 + k - 1)]
    IN  value(fetchOffset(img, t, index))

\* *p_nitems and the position of the first element
fetchVector(img, t, index) ==
    LET value(ptr) ==
            IF ptr = NULLPTR THEN [nitems |-> 0, vector |-> NULLPTR]
            ELSE [nitems |-> Int32AtPos(img, ptr), vector |-> ptr + 4]
    IN  value(fetchOffset(img, t, index))

readArrowTypeInt(img, pos) ==
    LET read(t) == [ArrowType("Int") EXCEPT !.bitWidth = fetchInt(img, t, 0),
                                            !.is_signed = fetchBool(img, t, 1)]
    IN  read(fetchFBTable(img, pos))

readArrowTypeFloatingPoint(img, pos) ==
    LET read(t) == [ArrowType("FloatingPoint") EXCEPT !.precision = fetchShort(img, t, 0)]
    IN  read(fetchFBTable(img, pos))

readArrowTypeDecimal(img, pos) ==
    LET read(t) == [ArrowType("Decimal") EXCEPT !.precision = fetchInt(img, t, 0),
                                                !.scale = fetchInt(img, t, 1)]
    IN  read(fetchFBTable(img, pos))

readArrowTypeDate(img, pos) ==
    LET read(t) == [ArrowType("Date") EXCEPT !.unit = fetchShort(img, t, 0)]
    IN  read(fetchFBTable(img, pos))

readArrowTypeTime(img, pos) ==
    LET read(t) == [ArrowType("Time") EXCEPT !.unit = fetchShort(img, t, 0),
                                             !.bitWidth = fetchInt(img, t, 1)]
    IN  read(fetchFBTable(img, pos))

readArrowTypeTimestamp(img, pos) ==
    LET read(t) == [ArrowType("Timestamp") EXCEPT !.unit = fetchInt(img, t, 0),
                                                  !.timezone = fetchString(img, t, 1)]
    IN  read(fetchFBTable(img, pos))

__readArrowType(img, type_tag, type_pos) ==
    LET with(tag, read) == IF type_pos # NULLPTR THEN read ELSE ArrowType(tag)
    IN  CASE type_tag = ArrowType__Int -> with("Int", readArrowTypeInt(img, type_pos))
          [] type_tag = ArrowType__FloatingPoint ->
                 with("FloatingPoint", readArrowTypeFloatingPoint(img, type_pos))
          [] type_tag = ArrowType__Binary -> ArrowType("Binary")
          [] type_tag = ArrowType__Utf8 -> ArrowType("Utf8")
          [] type_tag = ArrowType__Bool -> ArrowType("Bool")
          [] type_tag = ArrowType__Decimal ->
                 with("Decimal", readArrowTypeDecimal(img, type_pos))
          [] type_tag = ArrowType__Date -> with("Date", readArrowTypeDate(img, type_pos))
          [] type_tag = ArrowType__Time -> with("Time", readArrowTypeTime(img, type_pos))
          [] type_tag = ArrowType__Timestamp ->
                 with("Timestamp", readArrowTypeTimestamp(img, type_pos))
          [] type_tag = ArrowType__Struct -> ArrowType("Struct")
          [] OTHER -> ArrowType("none")

readArrowType(img, pos) ==
    LET read(t) == __readArrowType(img, fetchChar(img, t, 0), fetchOffset(img, t, 1))
    IN  read(fetchFBTable(img, pos))

\* the children are decoded by readArrowType; an element whose offset is 0 is left NULL
readArrowField(img, pos) ==
    LET child(at) ==
            IF Int32AtPos(img, at) = 0 THEN ArrowType("none")
            ELSE readArrowType(img, at + Int32AtPos(img, at))
        children(v) == [i \in 1..v.nitems |-> child(v.vector + 4 * (i - 1))]
        read(t) ==
            [name       |-> fetchString(img, t, 0),
             nullable   |-> fetchBool(img, t, 1),
             type       |-> __readArrowType(img, fetchChar(img, t, 2),
                                            fetchOffset(img, t, 3)),
             dictionary |-> [id |-> 0],
             children   |-> children(fetchVector(img, t, 5))]
    IN  read(fetchFBTable(img, pos))

readArrowSchema(img, pos) ==
    LET field(at) == readArrowField(img, at + Int32AtPos(img, at))
        fields(v) == [i \in 1..v.nitems |-> field(v.vector + 4 * (i - 1))]
        read(t) ==
            [tag        |-> "Schema",
             endianness |-> IF fetchBool(img, t, 0) THEN 1 ELSE 0,
             fields     |-> fields(fetchVector(img, t, 1)),
             length     |-> 0,
             nodes      |-> <<>>,
             buffers    |-> <<>>]
    IN  read(fetchFBTable(img, pos))

readArrowRecordBatch(img, pos) ==
    LET nodes(v) ==
            [i \in 1..v.nitems |->
                [length     |-> Int64AtPos(img, v.vector + 16 * (i - 1)),
                 null_count |-> Int64AtPos(img, v.vector + 16 * (i - 1) + 8)]]
        buffers(v) ==
            [i \in 1..v.nitems |->
                ArrowBuffer(Int64AtPos(img, v.vector + 16 * (i - 1)),
                            Int64AtPos(img, v.vector + 16 * (i - 1) + 8))]
        read(t) ==
            ArrowRecordBatch(fetchLong(img, t, 0),
                             nodes(fetchVector(img, t, 1)),
                             buffers(fetchVector(img, t, 2)))
    IN  read(fetchFBTable(img, pos))

\* the message at pos, or Elog() for a version or a header that is not read
readArrowMessage(img, pos) ==
    LET body(mtype, next) ==
            IF mtype = ArrowMessageHeader__Schema
            THEN readArrowSchema(img, next)
            ELSE readArrowRecordBatch(img, next)
        read(t, mtype) ==
            IF \/ fetchShort(img, t, 0) # ArrowMetadataVersion__V4
               \/ mtype \notin {ArrowMessageHeader__Schema, ArrowMessageHeader__RecordBatch}
            THEN [made |-> TRUE, elog |-> TRUE, version |-> fetchShort(img, t, 0),
                  body |-> ArrowRecordBatch(0, <<>>, <<>>), bodyLength |-> 0]
            ELSE [made |-> TRUE, elog |-> FALSE, version |-> fetchShort(img, t, 0),
                  body |-> body(mtype, fetchOffset(img, t, 2)),
                  bodyLength |-> fetchLong(img, t, 3)]
        table_at(t) == read(t, fetchChar(img, t, 1))
    IN  table_at(fetchFBTable(img, pos))

\* "ARROW1\0\0", the bytes the reader wants at the head of the file
Signature == <<65, 82, 82, 79, 87, 49, 0, 0>>

\* the loop of readArrowFile from pass i on: meta is the position of the
\* FBMetaData, dumped the nodes handed to dumpArrowNode so far
RECURSIVE ReadMessages(_, _, _, _)
ReadMessages(img, meta, i, dumped) ==
    LET next(message) ==
            IF message.elog THEN [elog |-> TRUE, dumped |-> dumped]
            ELSE ReadMessages(img, (meta + 4) + Int32AtPos(img, meta), i + 1,
                              Append(dumped, message))
    IN  IF i >= 2 THEN [elog |-> FALSE, dumped |-> dumped]
        ELSE next(readArrowMessage(img, (meta + 4) + Int32AtPos(img, meta + 4)))

\* the file is mapped up to the end of its last page: the bytes behind its end
\* read as 0
readArrowFile(img) ==
    IF SubSeq(img, 1, 8) # Signature THEN [elog |-> TRUE, dumped |-> <<>>]
    ELSE ReadMessages(img, 8, 0, <<>>)

\* Bound of the model: calls of pgsql_writeout_buffer in one run.
MaxFlushes == 4


\* the contents heap memory can have where the program has not written it
HeapBytes == {0, 165}

Init ==
    /\ variant \in {"query", "buffer"}
    /\ \E c \in Configs, nrooms \in {0, 2} :
          /\ variant = "query" => nrooms = 0
          /\ table = pgsql_create_buffer(c.attrs, c.segment_sz, nrooms)
    /\ pc = "next"
    /\ cur = <<>>
    /\ consumed = 0
    /\ fed = <<>>
    /\ flushed = <<>>
    /\ rbatch = NoBatch
    /\ heap \in HeapBytes
    /\ file = Signature
    /\ node = NoMessage
    /\ writer = "arrow_read.c"
    /\ row_usage = 0
    /\ stdout = <<>>
    /\ builder = NoBuilder
    /\ sqlbuffer = NoBuffer

\* for (i=0; i < ntuples; i++): the next tuple of the result
NextTuple ==
    /\ pc = "next"
    /\ variant = "query"
    /\ consumed < MaxRows
    /\ Len(flushed) < MaxFlushes
    /\ \E tuple \in Tuples(table.attrs) :
          /\ fed' = Append(fed, tuple)
          /\ pgsql_append_results(tuple)

\* goto retry: the same tuple again, after the write out
Retry ==
    /\ pc = "retry"
    /\ variant = "query"
    /\ Len(flushed) < MaxFlushes
    /\ pgsql_append_results(cur)
    /\ UNCHANGED fed

NextTupleBuffer ==
    /\ pc = "next"
    /\ variant = "buffer"
    /\ consumed < MaxRows
    /\ Len(flushed) < MaxFlushes
    /\ \E tuple \in Tuples(table.attrs) :
          /\ fed' = Append(fed, tuple)
          /\ pgsql_append_results_buffer(tuple)

RetryBuffer ==
    /\ pc = "retry"
    /\ variant = "buffer"
    /\ Len(flushed) < MaxFlushes
    /\ pgsql_append_results_buffer(cur)
    /\ UNCHANGED fed

\* writeArrowRecordBatch(table, ...) on the rows the table holds
WriteRecordBatch ==
    /\ pc = "next"
    /\ table.nitems > 0
    /\ LET write(r) ==
               /\ rbatch' = [k \in DOMAIN NoBatch |-> r[k]]
               /\ file' = file \o r.bytes
               /\ pc' = IF r.elog THEN "fatal" ELSE "written"
       IN  write(writeArrowRecordBatch(table))
    /\ UNCHANGED <<variant, table, cur, consumed, fed, flushed, heap, node, writer,
                   row_usage, stdout, builder,
                   sqlbuffer>>

\* attr->setup_buffer(attr, node, &offset) for every column of the table, in order
SetupBuffers ==
    /\ pc = "next"
    /\ table.nitems > 0
    /\ LET setup(l) ==
               rbatch' = [made |-> TRUE, elog |-> l.elog, length |-> table.nitems,
                          nodes |-> <<>>, buffers |-> l.buffers,
                          bodyLength |-> l.offset, metaLength |-> 0]
       IN  setup(setup_buffer_subtypes(table.attrs, 1, Layout(<<>>, 0, FALSE)))
    /\ pc' = "laid out"
    /\ UNCHANGED <<variant, table, cur, consumed, fed, flushed, heap, file, node, writer,
                   row_usage, stdout, builder,
                   sqlbuffer>>

Next ==
    \/ NextTuple
    \/ Retry
    \/ NextTupleBuffer
    \/ RetryBuffer
    \/ WriteRecordBatch
    \/ SetupBuffers

Spec == Init /\ [][Next]_vars

(***************************************************************************)
(* Writing one message and reading it back: a Schema message of a table    *)
(* whose columns are of any type assignArrowType knows, or a RecordBatch   *)
(* message of given vectors, by the writer of either file.                 *)
(***************************************************************************)
\* typname and attlen of the column types
SchemaTypes ==
    {<<"bool", 1>>, <<"char", 1>>, <<"int2", 2>>, <<"int4", 4>>, <<"int8", 8>>,
     <<"float4", 4>>, <<"float8", 8>>, <<"date", 4>>, <<"time", 8>>,
     <<"timestamp", 8>>, <<"text", -1>>, <<"numeric", -1>>, <<"bytea", -1>>}

SchemaColumns(attname) ==
    {SQLattribute(attname, ty[1], 0, ty[2], "none", "none", <<>>) : ty \in SchemaTypes}
      \cup {CompositeAttr(attname, <<Int4Attr(<<97>>), TextAttr(<<98>>)>>)}

\* the results of one column "c" or of two columns "c", "name"
SchemaTables ==
    {<<x>> : x \in SchemaColumns(<<99>>)}
      \cup {<<x, y>> : x \in SchemaColumns(<<99>>),
                       y \in SchemaColumns(<<110, 97, 109, 101>>)}

\* the record batches handed to createArrowMessage
RecordBatches ==
    {[NoBatch EXCEPT !.made = TRUE, !.length = l, !.nodes = n, !.buffers = b,
                     !.bodyLength = s] :
        l \in {0, 2},
        n \in {<<>>,
               <<[length |-> 2, null_count |-> 0]>>,
               <<[length |-> 2, null_count |-> 1], [length |-> 2, null_count |-> 0]>>},
        b \in {<<>>,
               <<ArrowBuffer(0, 0), ArrowBuffer(0, 8)>>,
               <<ArrowBuffer(0, 8), ArrowBuffer(8, 8), ArrowBuffer(16, 0),
                 ArrowBuffer(16, 16), ArrowBuffer(32, 8)>>},
        s \in {0, 40}}

InitMessage ==
    /\ variant = "query"
    /\ \/ /\ \E attrs \in SchemaTables : table = pgsql_create_buffer(attrs, 0, 0)
          /\ rbatch = NoBatch
       \/ /\ table = pgsql_create_buffer(OneColumn, 0, 0)
          /\ rbatch \in RecordBatches
    /\ pc = "start"
    /\ cur = <<>>
    /\ consumed = 0
    /\ fed = <<>>
    /\ flushed = <<>>
    /\ heap \in HeapBytes
    /\ file = Signature
    /\ node = NoMessage
    /\ writer \in {"arrow_read.c", "arrow_write.c"}
    /\ row_usage = 0
    /\ stdout = <<>>
    /\ builder = NoBuilder
    /\ sqlbuffer = NoBuffer

\* writeArrowSchema(table)
WriteSchema ==
    /\ pc = "start"
    /\ ~rbatch.made
    /\ LET write(w) ==
               /\ file' = file \o w.bytes
               /\ pc' = IF w.elog THEN "fatal" ELSE "written"
       IN  write(writeArrowSchema(table, writer))
    /\ UNCHANGED <<variant, table, cur, consumed, fed, flushed, rbatch, heap, node,
                   writer, row_usage, stdout, builder,
                   sqlbuffer>>

\* createArrowMessage() of a RecordBatch and the message writer of the same file
WriteMessage ==
    /\ pc = "start"
    /\ rbatch.made
    /\ LET write(w) ==
               /\ file' = file \o w.bytes
               /\ pc' = IF w.elog THEN "fatal" ELSE "written"
           message ==
               ArrowMessage(ArrowRecordBatch(rbatch.length, rbatch.nodes, rbatch.buffers),
                            rbatch.bodyLength)
       IN  write(IF writer = "arrow_write.c"
                 THEN __writeFlatBufferMessage(createArrowMessage(message, writer))
                 ELSE writeFlatBufferMessage(message))
    /\ UNCHANGED <<variant, table, cur, consumed, fed, flushed, rbatch, heap, node,
                   writer, row_usage, stdout, builder,
                   sqlbuffer>>

\* readArrowFile, the first pass of its loop: meta is behind the signature
ReadMessage ==
    /\ pc = "written"
    /\ node' = readArrowMessage(file, (8 + 4) + Int32AtPos(file, 8 + 4))
    /\ pc' = "read"
    /\ UNCHANGED <<variant, table, cur, consumed, fed, flushed, rbatch, heap, file,
                   writer, row_usage, stdout, builder,
                   sqlbuffer>>

\* writeArrowFooter(table), behind the Schema message or behind the last append
WriteFooter ==
    /\ pc \in {"written", "next"}
    /\ ~rbatch.made
    /\ LET write(w) ==
               /\ file' = file \o w.bytes
               /\ pc' = IF w.elog THEN "fatal" ELSE "closed"
       IN  write(writeArrowFooter(table, writer))
    /\ UNCHANGED <<variant, table, cur, consumed, fed, flushed, rbatch, heap, node,
                   writer, row_usage, stdout, builder,
                   sqlbuffer>>

\* readArrowFile(pathname) on the file as it was closed
ReadFile ==
    /\ pc = "closed"
    /\ LET read(r) ==
               /\ stdout' = r.dumped
               /\ pc' = IF r.elog THEN "fatal" ELSE "dumped"
       IN  read(readArrowFile(file))
    /\ UNCHANGED <<variant, table, cur, consumed, fed, flushed, rbatch, heap, file,
                   node, writer, row_usage, builder, sqlbuffer>>

NextMessage ==
    \/ WriteSchema
    \/ WriteMessage
    \/ ReadMessage
    \/ WriteFooter
    \/ ReadFile

SpecMessage == InitMessage /\ [][NextMessage]_vars

(***************************************************************************)
(* Reading a batch back: what the buffers of a column hold at row r        *)
(***************************************************************************)
\* the 32-bit integer at slot k of a buffer
Slot32(buf, k) == Int32At(SubSeq(Used(buf), 4 * k + 1, 4 * k + 4))

RECURSIVE RowValue(_, _)
RowValue(attr, r) ==
    IF r \notin attr.nullmap.data
    THEN NullValue
    ELSE CASE attr.put_value = "put_inline_32b_value" ->
                  Int4Value(Slot32(attr.values, r))
           [] attr.put_value = "put_variable_value" ->
                  TextValue(SubSeq(Used(attr.extra),
                                   Slot32(attr.values, r) + 1,
                                   Slot32(attr.values, r + 1)))
           [] attr.put_value = "put_composite_value" ->
                  RecordValue(Len(attr.subtypes),
                              [c \in 1..Len(attr.subtypes) |->
                                  RowValue(attr.subtypes[c], r)])

RowTuple(attrs, r) == [j \in 1..Len(attrs) |-> RowValue(attrs[j], r)]

\* a value of the row source as a batch can show it: the fields that
\* record_send() left out are null
RECURSIVE Sent(_, _)
Sent(attr, value) ==
    IF value.isnull THEN NullValue
    ELSE IF attr.put_value = "put_composite_value"
    THEN RecordValue(Len(attr.subtypes),
                     [c \in 1..Len(attr.subtypes) |->
                         IF c > value.nvalids THEN NullValue
                         ELSE Sent(attr.subtypes[c], value.fields[c])])
    ELSE value

SentTuple(attrs, tuple) == [j \in 1..Len(attrs) |-> Sent(attrs[j], tuple[j])]

\* the number of rows in the first k batches written out
RECURSIVE RowsFlushed(_)
RowsFlushed(k) == IF k = 0 THEN 0 ELSE RowsFlushed(k - 1) + flushed[k].nitems

(***************************************************************************)
(* C1.  Every row fed to pgsql_append_results is in exactly one batch, in  *)
(* arrival order: the rows of the batches written out plus the rows of the *)
(* current batch are the rows consumed so far, batch after batch and slot  *)
(* after slot; the tuple that pushed the usage over segment_sz is not in   *)
(* the batch written out and is the next one to enter the table.           *)
(***************************************************************************)
C1_RowsInOneBatchInOrder ==
    /\ RowsFlushed(Len(flushed)) + table.nitems = consumed
    /\ \A k \in 1..Len(flushed) : \A r \in 0..(flushed[k].nitems - 1) :
           RowTuple(flushed[k].attrs, r)
             = SentTuple(table.attrs, fed[RowsFlushed(k - 1) + r + 1])
    /\ \A r \in 0..(table.nitems - 1) :
           RowTuple(table.attrs, r)
             = SentTuple(table.attrs, fed[RowsFlushed(Len(flushed)) + r + 1])
    /\ pc = "retry" =>
           /\ table.nitems = 0
           /\ Len(fed) = consumed + 1
           /\ cur = fed[consumed + 1]

\* a batch of k >= 1 rows was written out on the threshold and the tuple that
\* overflowed it is now row 0 of the next batch
C1_Witness ==
    /\ table.nrooms = 0
    /\ pc = "next"
    /\ Len(flushed) >= 1
    /\ flushed[1].nitems >= 1
    /\ table.nitems >= 1
    /\ consumed = flushed[1].nitems + table.nitems

\* field c of a composite value received null (c = 0: the value itself)
PassedNull(value, c) ==
    \/ value.isnull
    \/ c > 0 /\ (c > value.nvalids \/ value.fields[c].isnull)

\* the tuples of batch k (k = Len(flushed) + 1: the current batch), in row order
BatchTuples(k) ==
    SubSeq(fed, RowsFlushed(k - 1) + 1,
           IF k > Len(flushed) THEN consumed ELSE RowsFlushed(k))

\* the number of appends among tuples that passed null to field c of column j
NullAppends(tuples, j, c) ==
    Cardinality({r \in 1..Len(tuples) : PassedNull(tuples[r][j], c)})

(***************************************************************************)
(* C2.  At every write out, for every column and every child of a          *)
(* composite column, nullcount is the number of appends of that batch that *)
(* passed null to the field; the tuple that overflowed is not counted.     *)
(* (pgsql_append_results of query.c, the one that fixes the count up.)     *)
(***************************************************************************)
C2_NullCountAtFlush ==
    variant = "query" =>
        \A k \in 1..Len(flushed) : \A j \in 1..table.nfields :
            /\ flushed[k].attrs[j].nullcount = NullAppends(BatchTuples(k), j, 0)
            /\ \A c \in 1..Len(flushed[k].attrs[j].subtypes) :
                   flushed[k].attrs[j].subtypes[c].nullcount
                     = NullAppends(BatchTuples(k), j, c)

\* the part of C2 that the code keeps: the columns of the result themselves
C2_TopLevelNullCountAtFlush ==
    variant = "query" =>
        \A k \in 1..Len(flushed) : \A j \in 1..table.nfields :
            flushed[k].attrs[j].nullcount = NullAppends(BatchTuples(k), j, 0)

C3_OversizedRowIsFatalQuery ==
    variant = "query" => \A k \in 1..Len(flushed) : flushed[k].nitems > 0

\* query.c: the first tuple alone exceeded segment_sz and the run ended
C3_FatalReached ==
    /\ variant = "query"
    /\ pc = "fatal"
    /\ table.nitems = 0
    /\ flushed = <<>>

(***************************************************************************)
(* C4.  In every record batch laid out, by writeArrowRecordBatch or by the *)
(* setup_buffer handlers, every entry of the Buffer vector has an offset   *)
(* that is a multiple of 64; the first offset is 0 and every other one is  *)
(* the offset before it plus the length before it rounded up to 64.        *)
(***************************************************************************)
C4_BufferOffsetsAligned64 ==
    rbatch.made /\ ~rbatch.elog =>
        \A k \in 1..Len(rbatch.buffers) :
            /\ rbatch.buffers[k].offset % 64 = 0
            /\ rbatch.buffers[k].offset
                 = IF k = 1 THEN 0
                   ELSE rbatch.buffers[k - 1].offset
                          + ARROWALIGN(rbatch.buffers[k - 1].length)

(***************************************************************************)
(* C5.  Once a message is written the file ends at a multiple of 8, so the *)
(* message began and the next one begins at an offset that is a multiple   *)
(* of 8, whatever the vtable length and the payload length were.           *)
(***************************************************************************)
C5_MessagesAligned8 ==
    pc \in {"written", "read"} => Len(file) % 8 = 0

(***************************************************************************)
(* C6.  For a table whose columns have any of the types assignArrowType    *)
(* gives, writeArrowSchema does not end in Elog(), and the Schema that     *)
(* readArrowMessage decodes from the file equals the Schema derived from   *)
(* the table: names, nullable flags, type tags, type parameters, children. *)
(***************************************************************************)
C6_SchemaRoundTrip ==
    ~rbatch.made =>
        /\ pc # "fatal"
        /\ pc = "read" => ~node.elog /\ node.body = ArrowSchema(table)

(***************************************************************************)
(* C7.  readArrowRecordBatch applied to what createArrowRecordBatch made   *)
(* gives back the length, the FieldNode{length, null_count} list and the   *)
(* Buffer{offset, length} list: length is field 0, the FieldNode vector    *)
(* field 1 and the Buffer vector field 2 for the writer of either file.    *)
(***************************************************************************)
C7_RecordBatchRoundTrip ==
    rbatch.made /\ pc = "read" =>
        /\ ~node.elog
        /\ node.body = ArrowRecordBatch(rbatch.length, rbatch.nodes, rbatch.buffers)

\* the FieldNodes of the schema tree, depth first: a column, then its sub-types
RECURSIVE DepthFirstNodes(_, _, _)
DepthFirstNodes(attrs, i, nitems) ==
    IF i > Len(attrs) THEN <<>>
    ELSE <<[length |-> nitems, null_count |-> attrs[i].nullcount]>>
           \o DepthFirstNodes(attrs[i].subtypes, 1, nitems)
           \o DepthFirstNodes(attrs, i + 1, nitems)

\* the number of buffers of the columns from i on: 1 for a Struct and those of
\* its sub-types, 3 for Utf8 and Binary, 2 for the rest
RECURSIVE BufferCount(_, _)
BufferCount(attrs, i) ==
    IF i > Len(attrs) THEN 0
    ELSE (CASE attrs[i].arrow_type.tag = "Struct" -> 1 + BufferCount(attrs[i].subtypes, 1)
            [] attrs[i].arrow_type.tag \in {"Utf8", "Binary"} -> 3
            [] OTHER -> 2)
           + BufferCount(attrs, i + 1)

(***************************************************************************)
(* C8.  writeArrowRecordBatch emits the batch, its FieldNode vector has    *)
(* one entry per field of the schema tree in depth-first order, each with  *)
(* the row count of the batch as its length, and the Buffer vector has the *)
(* buffers of the same fields; for one row of Struct {int32 a, utf8 b} the *)
(* FieldNodes are parent(1,0), a(1,0), b(1,0).                             *)
(***************************************************************************)
C8_FieldNodesDepthFirst ==
    rbatch.made /\ pc # "laid out" =>
        /\ ~rbatch.elog
        /\ rbatch.nodes = DepthFirstNodes(table.attrs, 1, table.nitems)
        /\ Len(rbatch.buffers) = BufferCount(table.attrs, 1)

\* the size of column j by the rule of the estimate, n rows in the batch
ColumnEstimate(attr, n) ==
    ARROWALIGN(attr.values.usage) + ARROWALIGN(attr.extra.usage)
      + (IF attr.nullcount > 0 THEN ARROWALIGN(BITMAPLEN(n)) ELSE 0)

RECURSIVE TableEstimate(_, _, _)
TableEstimate(attrs, i, n) ==
    IF i > Len(attrs) THEN 0
    ELSE ColumnEstimate(attrs[i], n) + TableEstimate(attrs, i + 1, n)

(***************************************************************************)
(* C9.  With n rows in the batch, the usage that the append of row n - 1   *)
(* computed includes, for every column with nullcount > 0, the bitmap of   *)
(* ceil(n/8) bytes rounded up to 64; the nullmap entry of such a column in *)
(* the Buffer vector is at least ceil(n/8) bytes long; and the batch       *)
(* [7, null] of one int4 column has a body of 64 + 64 = 128 bytes.         *)
(***************************************************************************)
C9_NullmapCounted ==
    /\ pc = "next" /\ table.nitems > 0 =>
           row_usage >= TableEstimate(table.attrs, 1, table.nitems)
    /\ rbatch.made /\ ~rbatch.elog =>
           \A j \in 1..table.nfields :
               table.attrs[j].nullcount > 0 =>
                   rbatch.buffers[BufferCount(SubSeq(table.attrs, 1, j - 1), 1) + 1].length
                     >= BITMAPLEN(table.nitems)
    /\ (/\ rbatch.made
        /\ table.nfields = 1
        /\ fed = <<<<Int4Value(7)>>, <<NullValue>>>>
        /\ table.nitems = 2) => rbatch.bodyLength = 128

(***************************************************************************)
(* C10.  For every column, every child of a composite column and every row *)
(* r of the current batch, bit r of the null bitmap is 1 iff the r-th      *)
(* append of the batch passed a value; a bit set by an earlier batch or by *)
(* the tuple that was unwound does not show.                               *)
(***************************************************************************)
C10_NullmapBits ==
    \A j \in 1..table.nfields : \A r \in 0..(table.nitems - 1) :
        LET value == BatchTuples(Len(flushed) + 1)[r + 1][j]
        IN  /\ (r \in table.attrs[j].nullmap.data) <=> ~PassedNull(value, 0)
            /\ \A c \in 1..Len(table.attrs[j].subtypes) :
                   (r \in table.attrs[j].subtypes[c].nullmap.data)
                     <=> ~PassedNull(value, c)

\* row r of the current batch is null in a column whose bit r was 1 when the
\* last batch was written out, r being at or beyond that batch's row count
C10_Witness ==
    /\ Len(flushed) >= 1
    /\ \E j \in 1..table.nfields : \E r \in 0..(table.nitems - 1) :
          /\ r >= flushed[Len(flushed)].nitems
          /\ r \in flushed[Len(flushed)].attrs[j].nullmap.data
          /\ r \notin table.attrs[j].nullmap.data
          /\ PassedNull(BatchTuples(Len(flushed) + 1)[r + 1][j], 0)

\* the values field (j, c) received in the current batch, in row order
\* (c = 0: column j itself, c > 0: child c of the composite column j)
FieldValues(j, c) ==
    LET tuples == BatchTuples(Len(flushed) + 1)
        field(value) ==
            IF c = 0 THEN value
            ELSE IF PassedNull(value, c) THEN NullValue
            ELSE value.fields[c]
    IN  [r \in 1..Len(tuples) |-> field(tuples[r][j])]

\* the offsets of a varlena column after the appends of values, as C11 has them
OffsetsOfRows(attr, values) ==
    LET n == Len(values)
        size(value) == IF value.isnull THEN 0 ELSE Len(value.bytes)
    IN  /\ attr.values.usage = 4 * (n + 1)
        /\ Slot32(attr.values, 0) = 0
        /\ \A i \in 1..n :
               /\ Slot32(attr.values, i) = Slot32(attr.values, i - 1) + size(values[i])
               /\ Slot32(attr.values, i) >= Slot32(attr.values, i - 1)
        /\ Slot32(attr.values, n) = attr.extra.usage

\* put_variable_value for rows 0.. of one column, one after the other
RECURSIVE PutRows(_, _, _)
PutRows(attr, rows, r) ==
    IF r >= Len(rows) THEN attr
    ELSE PutRows(put_variable_value(attr, r, rows[r + 1]).attr, rows, r + 1)

(***************************************************************************)
(* C11.  For every Utf8 column and every Utf8 child of a composite column, *)
(* with n >= 1 rows in the current batch (the first batch or one begun     *)
(* behind a write out): the offsets buffer holds n + 1 32-bit entries,     *)
(* entry 0 is 0, entry i is entry i - 1 plus the bytes of row i - 1 (none  *)
(* for null), so the entries never decrease, and entry n is the size of    *)
(* the heap.  The rows "a", "bb", null, "cccc" give 0, 1, 3, 3, 7.         *)
(***************************************************************************)
C11_VarlenaOffsets ==
    /\ (pc \in {"next", "written", "laid out"} /\ table.nitems >= 1) =>
           \A j \in 1..table.nfields :
               /\ table.attrs[j].put_value = "put_variable_value" =>
                      OffsetsOfRows(table.attrs[j], FieldValues(j, 0))
               /\ \A c \in 1..Len(table.attrs[j].subtypes) :
                      table.attrs[j].subtypes[c].put_value = "put_variable_value" =>
                          OffsetsOfRows(table.attrs[j].subtypes[c], FieldValues(j, c))
    /\ LET offsets(a) == [k \in 0..4 |-> Slot32(a.values, k)]
       IN  offsets(PutRows(TextAttr(<<117>>),
                           <<<<97>>, <<98, 98>>, NULL, <<99, 99, 99, 99>>>>, 0))
             = [k \in 0..4 |-> <<0, 1, 3, 3, 7>>[k + 1]]

\* a batch begun behind a write out holds a null and a value of some Utf8 column
C11_Witness ==
    /\ pc = "next"
    /\ Len(flushed) >= 1
    /\ flushed[Len(flushed)].nitems >= 1
    /\ table.nitems >= 2
    /\ \E j \in 1..table.nfields :
          /\ table.attrs[j].put_value = "put_variable_value"
          /\ table.attrs[j].extra.usage > 0
          /\ table.attrs[j].nullcount > 0

(***************************************************************************)
(* One column of any other kind: the rows of a result of one column that   *)
(* is bool, int2, int8, date, timestamp or numeric(precision, scale) go    *)
(* through pgsql_append_results of query.c.                                *)
(***************************************************************************)
\* Bounds of the model: the scale of a numeric column, the rows appended to a
\* numeric column and to a column of another kind.
MaxScale == 5

MaxDecimalRows == 2

MaxColumnRows == 9

RECURSIVE Pow10(_)
Pow10(n) == IF n = 0 THEN 1 ELSE 10 * Pow10(n - 1)

ColumnTables ==
    {<<BoolAttr(<<99>>)>>, <<Int2Attr(<<99>>)>>, <<Int8Attr(<<99>>)>>,
     <<DateAttr(<<99>>)>>, <<TimestampAttr(<<99>>)>>}
      \cup {<<DecimalAttr(<<99>>, 9 + scale, scale)>> : scale \in 0..MaxScale}

\* the int128 of put_decimal_value is kept as an integer of the model: the
\* numerics fed are those whose scaled value stays within it
DecimalInRange(attr, value) ==
    \/ attr.put_value # "put_decimal_value"
    \/ value.isnull
    \/ value.v <= 2147483647 \div Pow10(attr.arrow_type.scale)

InitColumn ==
    /\ variant = "query"
    /\ \E attrs \in ColumnTables : table = pgsql_create_buffer(attrs, 64, 0)
    /\ pc = "next"
    /\ cur = <<>>
    /\ consumed = 0
    /\ fed = <<>>
    /\ flushed = <<>>
    /\ rbatch = NoBatch
    /\ heap = 0
    /\ file = Signature
    /\ node = NoMessage
    /\ writer = "arrow_read.c"
    /\ row_usage = 0
    /\ stdout = <<>>
    /\ builder = NoBuilder
    /\ sqlbuffer = NoBuffer

NextColumnTuple ==
    /\ pc = "next"
    /\ consumed < (IF table.attrs[1].put_value = "put_decimal_value"
                   THEN MaxDecimalRows ELSE MaxColumnRows)
    /\ Len(flushed) < MaxFlushes
    /\ \E tuple \in Tuples(table.attrs) :
          /\ DecimalInRange(table.attrs[1], tuple[1])
          /\ fed' = Append(fed, tuple)
          /\ pgsql_append_results(tuple)

RetryColumn ==
    /\ pc = "retry"
    /\ Len(flushed) < MaxFlushes
    /\ pgsql_append_results(cur)
    /\ UNCHANGED fed

NextColumn ==
    \/ NextColumnTuple
    \/ RetryColumn

SpecColumn == InitColumn /\ [][NextColumn]_vars

\* the same run, closed by writeArrowFooter behind any of its rows
NextColumnFile ==
    \/ NextColumnTuple
    \/ RetryColumn
    \/ WriteFooter

SpecColumnFile == InitColumn /\ [][NextColumnFile]_vars

\* the 16 bytes the last append left in values
LastInt128(attr) == SubSeq(Used(attr.values), attr.values.usage - 15, attr.values.usage)

(***************************************************************************)
(* C12.  put_decimal_value, for a numeric that is the integer v (sign      *)
(* positive or negative) and a column of scale s >= 0: the append leaves   *)
(* the int128 v * 10^s, or -(v * 10^s) for the negative sign, as the last  *)
(* 16 bytes of values; a NaN ends the run in Elog().                       *)
(***************************************************************************)
C12_DecimalScaled ==
    (table.attrs[1].put_value = "put_decimal_value" /\ cur # <<>>) =>
        LET value == cur[1]
            sign == ntohs(value.bytes, 4)
            scaled == value.v * Pow10(table.attrs[1].arrow_type.scale)
            expected == IF sign = NUMERIC_NEG THEN -scaled ELSE scaled
            int128(b) ==
                /\ Int32At(SubSeq(b, 1, 4)) = expected
                /\ SubSeq(b, 5, 16) = Fill(12, IF expected < 0 THEN 255 ELSE 0)
        IN  IF value.isnull THEN pc = "next"
            ELSE IF sign = NUMERIC_NAN THEN pc = "fatal"
            ELSE /\ pc = "next"
                 /\ int128(LastInt128(table.attrs[1]))

\* the second row of a numeric column of scale 3 is -19999: weight 1, two digits
C12_Witness ==
    /\ table.attrs[1].put_value = "put_decimal_value"
    /\ table.attrs[1].arrow_type.scale = 3
    /\ pc = "next"
    /\ table.nitems = 2
    /\ cur = <<NumericValue(19999, NUMERIC_NEG)>>
    /\ LastInt128(table.attrs[1]) = LE128(-19999000, 16)


(***************************************************************************)
(* C13: after the footer is written, the last 10 bytes of the output are   *)
(* a 4-byte little-endian length L followed by the 6 bytes ARROW1, and the *)
(* L bytes that end right before those 10 bytes begin with the root offset *)
(* that leads to the Footer root table: a table of version V4 whose schema *)
(* is the one of the Schema message, with the two block vectors behind.    *)
(***************************************************************************)
C13_FooterTail ==
    pc \in {"closed", "dumped"} =>
        LET n == Len(file)
            L == Int32AtPos(file, n - 10)
            root(start) == fetchFBTable(file, start + Int32AtPos(file, start))
            leads(t) ==
                /\ t.vtable \in (n - 10 - L + 4)..(t.table - 4)
                /\ t.table < n - 10
                /\ fetchShort(file, t, 0) = ArrowMetadataVersion__V4
                /\ readArrowSchema(file, fetchOffset(file, t, 1))
                       = readArrowMessage(file, (8 + 4) + Int32AtPos(file, 8 + 4)).body
                /\ fetchVector(file, t, 2).nitems = Len(table.dictionaries)
                /\ fetchVector(file, t, 3).nitems = Len(table.recordBatches)
        IN  /\ n >= Len(Signature) + 10
            /\ SubSeq(file, n - 5, n) = FooterSignature
            /\ L \in 4..(n - 10 - Len(Signature))
            /\ leads(root(n - 10 - L))


\* the root table of the Footer of a closed file, found from the tail as a
\* reader finds it
FooterRootTable(img) ==
    LET start == (Len(img) - 10) - Int32AtPos(img, Len(img) - 10)
    IN  fetchFBTable(img, start + Int32AtPos(img, start))

(***************************************************************************)
(* C14: every flush of a batch records one block in the table's pending    *)
(* list, and the Footer written on close after N flushed batches has a     *)
(* recordBatches BlockVector of exactly N entries.                         *)
(***************************************************************************)
C14_BlockPerFlush ==
    /\ Len(table.recordBatches) = Len(flushed)
    /\ pc = "closed" =>
           fetchVector(file, FooterRootTable(file), 3).nitems = Len(flushed)


(***************************************************************************)
(* C15: readArrowFile decodes exactly the messages the file holds: for a   *)
(* file made of the signature, one Schema message, no RecordBatch message, *)
(* the Footer and the tail, it hands the one Schema message to             *)
(* dumpArrowNode, nothing else, and ends without an error.                 *)
(***************************************************************************)
C15_ReadsMessagesOfFile ==
    [][(/\ pc = "closed"
        /\ pc' # "closed"
        /\ SubSeq(file, Len(file) - 5, Len(file)) = FooterSignature)
       => /\ pc' = "dumped"
          /\ Len(stdout') = 1
          /\ stdout'[1].body.tag = "Schema"]_vars


\* the bytes the first n of the tuples hold in column j, none for a null
RECURSIVE RowBytes(_, _, _)
RowBytes(tuples, j, n) ==
    IF n = 0 THEN 0
    ELSE RowBytes(tuples, j, n - 1)
           + (IF tuples[n][j].isnull THEN 0 ELSE Len(tuples[n][j].bytes))

(***************************************************************************)
(* C16: whenever pgsql_writeout_buffer is reached with nitems = k because  *)
(* of a threshold overflow, a fixed-width column has values.usage =        *)
(* k * width, and a varlena column has k + 1 offsets and only the heap     *)
(* bytes of rows 0..k-1: the bytes of the overflowing row k are not part   *)
(* of the batch written out.                                               *)
(***************************************************************************)
C16_FlushedSlots ==
    \A k \in 1..Len(flushed) : \A j \in 1..Len(flushed[k].attrs) :
        LET a == flushed[k].attrs[j]
            n == flushed[k].nitems
        IN  /\ a.put_value = "put_inline_32b_value" =>
                   a.values.usage = n * a.attlen
            /\ a.put_value = "put_variable_value" =>
                   /\ a.values.usage = 4 * (n + 1)
                   /\ a.extra.usage = RowBytes(BatchTuples(k), j, n)


\* the 64-byte-aligned sizes of the buffers of a one-buffer column in use
AlignedSizes(a) ==
    ARROWALIGN(a.values.usage)
      + (IF a.nullcount > 0 THEN ARROWALIGN(a.nullmap.usage) ELSE 0)

(***************************************************************************)
(* C17: behind every append that entered a row, the usage put_value has    *)
(* returned for the column is the sum of the 64-byte-aligned sizes of the  *)
(* column's buffers in use, for every inline kind, date, timestamp and     *)
(* decimal; so the table, one of a Timestamp column too, never holds more  *)
(* than segment_sz once the row is in: it is written out before.           *)
(***************************************************************************)
C17_UsageReturned ==
    (pc = "next" /\ table.nitems > 0) =>
        /\ row_usage = AlignedSizes(table.attrs[1])
        /\ AlignedSizes(table.attrs[1]) <= table.segment_sz


\* the used bytes of a buffer followed by zeros up to the next multiple of 8
ZeroPadded(bytes) == bytes \o Zeros(MAXALIGN(Len(bytes)) - Len(bytes))

\* the body of a batch of top-level columns: every buffer in use with its
\* zero padding, the nullmap only with nulls in the column
RECURSIVE PaddedBody(_, _)
PaddedBody(attrs, i) ==
    LET a == attrs[i]
        nullmap == IF a.nullcount > 0
                   THEN ZeroPadded(BitmapRegion(a.nullmap, a.nullmap.usage))
                   ELSE <<>>
        extra == IF a.arrow_type.tag \in {"Binary", "Utf8"}
                 THEN ZeroPadded(Used(a.extra)) ELSE <<>>
    IN  IF i > Len(attrs) THEN <<>>
        ELSE nullmap \o ZeroPadded(Used(a.values)) \o extra \o PaddedBody(attrs, i + 1)

\* where the Buffer vector's running offset has ended
FinalOffset(buffers) ==
    IF buffers = <<>> THEN 0
    ELSE buffers[Len(buffers)].offset + buffers[Len(buffers)].length

(***************************************************************************)
(* C18: for every record batch written, the bodyLength of the Message is   *)
(* the final running offset of the Buffer vector and the number of bytes   *)
(* written to the file behind the metadata, which are every column buffer  *)
(* with its zero padding (a nullmap iff null_count > 0): the next message  *)
(* begins bodyLength bytes behind the end of the metadata.                 *)
(***************************************************************************)
C18_BodyLength ==
    [][(pc = "next" /\ pc' = "written") =>
          LET start == Len(file)
              metaEnd == (start + 4) + Int32AtPos(file', start)
              message ==
                  readArrowMessage(file', (start + 4) + Int32AtPos(file', start + 4))
          IN  /\ rbatch'.bodyLength = FinalOffset(rbatch'.buffers)
              /\ message.bodyLength = rbatch'.bodyLength
              /\ Len(file') = metaEnd + rbatch'.bodyLength
              /\ SubSeq(file', metaEnd + 1, Len(file')) = PaddedBody(table.attrs, 1)]_vars


(***************************************************************************)
(* C19: for every message written, the metaLength prefix is the number of  *)
(* bytes from the rootOffset field to the end of the written metadata, so  *)
(* the reader's step meta = &rootOffset + metaLength lands where the       *)
(* writer stopped; and &rootOffset + rootOffset is the root table, whose   *)
(* first int32 is the length of the vtable in front of it.                 *)
(***************************************************************************)
C19_MetaLengthPrefix ==
    [][(pc = "start" /\ pc' = "written") =>
          LET rootOffset == Len(file) + 4
              root == rootOffset + Int32AtPos(file', rootOffset)
              vlen == Int32AtPos(file', root)
          IN  /\ rootOffset + Int32AtPos(file', Len(file)) = Len(file')
              /\ root < Len(file')
              /\ vlen = Int16At(file', root - vlen)
              /\ root - vlen >= rootOffset + 4
              /\ readArrowMessage(file', root).version = ArrowMetadataVersion__V4]_vars


\* __writeFlatBufferMessage has written a message whose vtable needs a gap of
\* two bytes in front to put the root table on a 4-byte boundary
C19_Witness ==
    /\ pc = "written"
    /\ writer = "arrow_write.c"
    /\ Len(file) > Len(Signature)
    /\ Int32AtPos(file, 12 + Int32AtPos(file, 12)) % 4 = 2


\* the raw used sizes of the buffers of the columns from i on, in the order of
\* the Buffer vector: the nullmap (nothing without nulls), the values, the
\* heap of a varlena column, the buffers of the children of a composite one
RECURSIVE RawSizes(_, _, _)
RawSizes(attrs, i, nitems) ==
    LET a == attrs[i]
        nullmap == IF a.nullcount = 0 THEN 0 ELSE (nitems + 7) \div 8
        own == CASE a.arrow_type.tag \in {"Binary", "Utf8"} ->
                        <<nullmap, a.values.usage, a.extra.usage>>
                 [] a.arrow_type.tag = "Struct" ->
                        <<nullmap>> \o RawSizes(a.subtypes, 1, nitems)
                 [] OTHER -> <<nullmap, a.values.usage>>
    IN  IF i > Len(attrs) THEN <<>>
        ELSE own \o RawSizes(attrs, i + 1, nitems)

(***************************************************************************)
(* C20: in every Buffer vector laid out, the length of each entry is the   *)
(* raw used size of the buffer it describes (values.usage, extra.usage or  *)
(* the size of the bitmap), not a padded size; the offsets run on by at    *)
(* least that length, and an entry of length zero, the nullmap of a field  *)
(* without nulls, leaves the offset where it is.                           *)
(***************************************************************************)
C20_BufferRawLength ==
    (pc \in {"written", "laid out"} /\ ~rbatch.elog) =>
        LET raw == RawSizes(table.attrs, 1, table.nitems)
            b == rbatch.buffers
        IN  /\ Len(b) = Len(raw)
            /\ \A i \in 1..Len(b) : b[i].length = raw[i]
            /\ \A i \in 1..(Len(b) - 1) :
                   /\ b[i + 1].offset >= b[i].offset + b[i].length
                   /\ raw[i] = 0 => b[i + 1].offset = b[i].offset


(***************************************************************************)
(* The FlatBuffer builder on its own: a table of MaxFields fields is put   *)
(* together field by field, flattened, and written as a message.           *)
(***************************************************************************)
\* Bound of the model: fields of the table under construction (nattrs).
MaxFields == 3

\* the scalars put; a bool is 0 or 1
ScalarValues ==
    [Bool |-> {0, 1}, Char |-> {0, -1, 65}, Short |-> {0, 3, -2}, Int |-> {0, -5},
     Long |-> {0, 8}]

\* flattened tables to put by offset: the type tables of a float4, an unsigned
\* and a signed int32 column, with vtables of 6, 6 and 8 bytes
SubTable(k) ==
    CASE k = 1 -> createArrowTypeFloatingPoint([precision |-> ArrowPrecision__Single])
      [] k = 2 -> createArrowTypeInt([bitWidth |-> 32, is_signed |-> FALSE])
      [] OTHER -> createArrowTypeInt([bitWidth |-> 32, is_signed |-> TRUE])

\* the element lists put as a vector
Elements(k) == IF k = 1 THEN <<SubTable(1), SubTable(3)>> ELSE <<SubTable(3), SubTable(2)>>

\* one put on the table: the addBuffer function of the kind
Put(buf, kind, index, value) ==
    CASE kind = "Bool"   -> addBufferBool(buf, index, value = 1)
      [] kind = "Char"   -> addBufferChar(buf, index, value)
      [] kind = "Short"  -> addBufferShort(buf, index, value)
      [] kind = "Int"    -> addBufferInt(buf, index, value)
      [] kind = "Long"   -> addBufferLong(buf, index, value)
      [] kind = "Offset" -> addBufferOffset(buf, index, SubTable(value))
      [] OTHER           -> addBufferVector(buf, index, 2, Elements(value), "arrow_write.c")

InitFlatBuffer ==
    /\ variant = "query"
    /\ table = pgsql_create_buffer(OneColumn, 0, 0)
    /\ pc = "build"
    /\ cur = <<>>
    /\ consumed = 0
    /\ fed = <<>>
    /\ flushed = <<>>
    /\ rbatch = NoBatch
    /\ heap \in HeapBytes
    /\ file = <<>>
    /\ node = NoMessage
    /\ writer = "arrow_write.c"
    /\ row_usage = 0
    /\ stdout = <<>>
    /\ builder = [buf |-> __allocFBTableBuf(MaxFields), puts |-> <<>>]
    /\ sqlbuffer = NoBuffer

programVars ==
    <<variant, table, cur, consumed, fed, flushed, rbatch, heap, node, writer, row_usage,
      stdout, sqlbuffer>>

\* addBufferBool .. addBufferLong on a field not put yet
AddScalar ==
    /\ pc = "build"
    /\ \E kind \in DOMAIN ScalarValues, index \in 0..(MaxFields - 1) :
          /\ \A i \in 1..Len(builder.puts) : builder.puts[i].index # index
          /\ \E value \in ScalarValues[kind] :
                builder' = [buf  |-> Put(builder.buf, kind, index, value),
                            puts |-> Append(builder.puts,
                                            [kind |-> kind, index |-> index,
                                             value |-> value])]
    /\ UNCHANGED <<pc, file>>
    /\ UNCHANGED programVars

\* addBufferOffset or addBufferVector on a field not put yet
AddExtra ==
    /\ pc = "build"
    /\ \E kind \in {"Offset", "Vector"}, index \in 0..(MaxFields - 1) :
          /\ \A i \in 1..Len(builder.puts) : builder.puts[i].index # index
          /\ \E value \in (IF kind = "Offset" THEN 1..3 ELSE 1..2) :
                builder' = [buf  |-> Put(builder.buf, kind, index, value),
                            puts |-> Append(builder.puts,
                                            [kind |-> kind, index |-> index,
                                             value |-> value])]
    /\ UNCHANGED <<pc, file>>
    /\ UNCHANGED programVars

\* makeBufferFlatten(buf)
Flatten ==
    /\ pc = "build"
    /\ builder' = [builder EXCEPT !.buf = __makeBufferFlatten(@)]
    /\ pc' = "flat"
    /\ UNCHANGED file
    /\ UNCHANGED programVars

\* __writeFlatBufferMessage(fdesc, payload)
WriteFlat ==
    /\ pc = "flat"
    /\ file' = __writeFlatBufferMessage(builder.buf).bytes
    /\ pc' = "sent"
    /\ UNCHANGED builder
    /\ UNCHANGED programVars

NextFlatBuffer ==
    \/ AddScalar
    \/ AddExtra
    \/ Flatten
    \/ WriteFlat

SpecFlatBuffer == InitFlatBuffer /\ [][NextFlatBuffer]_vars


\* the root table of the flattened image of the builder
RootTable == fetchFBTable(builder.buf.image, builder.buf.vlen)

\* what the fetch function of the kind returns for the field; a bool as 0 or 1
Fetch(kind, index) ==
    CASE kind = "Bool"  -> IF fetchBool(builder.buf.image, RootTable, index) THEN 1 ELSE 0
      [] kind = "Char"  -> fetchChar(builder.buf.image, RootTable, index)
      [] kind = "Short" -> fetchShort(builder.buf.image, RootTable, index)
      [] kind = "Int"   -> fetchInt(builder.buf.image, RootTable, index)
      [] OTHER          -> fetchLong(builder.buf.image, RootTable, index)

(***************************************************************************)
(* C21: on the flattened table, the fetch function of its kind returns the *)
(* value v of every scalar field put with addBufferBool/Char/Short/Int/    *)
(* Long, also for v = 0, where the field is left out; a field that was not *)
(* put, its index within the vtable or beyond it, reads as the default of  *)
(* every type: 0, false, and NULL for an offset.                           *)
(***************************************************************************)
C21_ScalarRoundTrip ==
    pc \in {"flat", "sent"} =>
        /\ \A i \in 1..Len(builder.puts) :
               builder.puts[i].kind \in DOMAIN ScalarValues =>
                   Fetch(builder.puts[i].kind, builder.puts[i].index)
                       = builder.puts[i].value
        /\ \A index \in 0..(MaxFields + 1) :
               (\A i \in 1..Len(builder.puts) : builder.puts[i].index # index) =>
                   /\ \A kind \in DOMAIN ScalarValues : Fetch(kind, index) = 0
                   /\ fetchOffset(builder.buf.image, RootTable, index) = NULLPTR

\* a flattened table with a field put as 0, a negative short behind it and a
\* vtable that ends before the last field
C21_Witness ==
    /\ pc = "flat"
    /\ builder.buf.vlen < 4 + 2 * MaxFields
    /\ \E i, j \in 1..Len(builder.puts) :
          /\ builder.puts[i].value = 0
          /\ builder.puts[j].kind = "Short"
          /\ builder.puts[j].value = -2
          /\ builder.puts[i].index < builder.puts[j].index


\* the put has stored something in the table: a scalar that is not 0, an
\* offset or a vector
Populated(put) == put.kind \in {"Offset", "Vector"} \/ put.value # 0

(***************************************************************************)
(* C22: after any sequence of puts and the flatten on a builder of N       *)
(* fields, vlen is even and 4 <= vlen <= 4 + 2N, tlen >= 4, the first      *)
(* int32 of the table is vlen, every populated field i has                 *)
(* 4 <= offset[i] < tlen, and the slot of every field that carries an      *)
(* extra blob holds, patched, the distance from the slot to the start of   *)
(* the blob plus the shift of the field.                                   *)
(***************************************************************************)
C22_FlattenedLayout ==
    pc \in {"flat", "sent"} =>
        LET b == builder.buf
            img == builder.buf.image
            slot(put) == b.vlen + UInt16At(img, 4 + 2 * put.index)
            blob(put) == IF put.kind = "Offset" THEN SubTable(put.value).image
                         ELSE LE32(2)
            shift(put) == IF put.kind = "Offset" THEN SubTable(put.value).vlen ELSE 0
            start(put) == (slot(put) + Int32AtPos(img, slot(put))) - shift(put)
        IN  /\ b.vlen % 2 = 0
            /\ b.vlen \in 4..(4 + 2 * b.nattrs)
            /\ UInt16At(img, 0) = b.vlen
            /\ b.tlen >= 4
            /\ UInt16At(img, 2) = b.tlen
            /\ Int32AtPos(img, b.vlen) = b.vlen
            /\ \A i \in 1..Len(builder.puts) :
                   Populated(builder.puts[i]) =>
                       /\ 4 + 2 * builder.puts[i].index < b.vlen
                       /\ UInt16At(img, 4 + 2 * builder.puts[i].index) \in 4..(b.tlen - 1)
            /\ \A i \in 1..Len(builder.puts) :
                   builder.puts[i].kind \in {"Offset", "Vector"} =>
                       /\ start(builder.puts[i]) >= b.vlen + b.tlen
                       /\ SubSeq(img, start(builder.puts[i]) + 1,
                                 start(builder.puts[i]) + Len(blob(builder.puts[i])))
                              = blob(builder.puts[i])

\* a flattened table with a sub-table put in front of a vector and a scalar
C22_Witness ==
    /\ pc = "flat"
    /\ Len(builder.puts) = MaxFields
    /\ \E i, j, k \in 1..MaxFields :
          /\ builder.puts[i].kind = "Offset"
          /\ builder.puts[j].kind = "Vector"
          /\ builder.puts[k].kind = "Long" /\ builder.puts[k].value = 8
          /\ builder.puts[i].index < builder.puts[j].index


(***************************************************************************)
(* C28: in every flattened image written as a message, every table root,   *)
(* the root table, every sub-table put with addBufferOffset and every      *)
(* element of a vector put with addBufferVector, lies at an offset from    *)
(* the start of the message that is a multiple of 4, whatever fields are   *)
(* populated.                                                              *)
(***************************************************************************)
C28_TableRootsAligned ==
    pc = "sent" =>
        LET root == 4 + Int32AtPos(file, 4)
            vtable == root - Int32AtPos(file, root)
            slot(put) == root + UInt16At(file, vtable + 4 + 2 * put.index)
            target(at) == at + Int32AtPos(file, at)
        IN  /\ root % 4 = 0
            /\ \A i \in 1..Len(builder.puts) :
                   /\ builder.puts[i].kind = "Offset" =>
                          target(slot(builder.puts[i])) % 4 = 0
                   /\ builder.puts[i].kind = "Vector" =>
                          \A j \in 1..2 :
                              target(target(slot(builder.puts[i])) + 4 * j) % 4 = 0


ChildrenWritten(attr) ==
    [j \in 1..Len(attr.subtypes) |->
        [name     |-> __setupArrowField(attr.subtypes[j]).name,
         nullable |-> __setupArrowField(attr.subtypes[j]).nullable,
         type     |-> __setupArrowField(attr.subtypes[j]).type]]

ChildrenRead(field) ==
    [j \in 1..Len(field.children) |->
        [name     |-> field.children[j].name,
         nullable |-> field.children[j].nullable,
         type     |-> field.children[j].type]]

C23_StructChildrenRoundTrip ==
    \A i \in 1..table.nfields :
        (~rbatch.made /\ Len(table.attrs[i].subtypes) > 0) =>
            /\ pc # "fatal"
            /\ pc = "read" =>
                   ChildrenRead(node.body.fields[i]) = ChildrenWritten(table.attrs[i])

(***************************************************************************)
(* C24: for a signed-integer column (int4 here), whenever the loop of      *)
(* pgsql_append_results stands between two rows or at the label retry,     *)
(* min_isnull and max_isnull are true iff the current batch holds no       *)
(* non-null value of the column, and otherwise min_value and max_value are *)
(* the least and the greatest of those values as signed integers; the row  *)
(* unwound at a flush is not in the batch until it is put again.           *)
(***************************************************************************)
\* the rows committed to the current batch: the last nitems rows fed, the row
\* that waits at the label retry left out
BatchRows ==
    LET pending == IF pc = "retry" THEN 1 ELSE 0
    IN  SubSeq(fed, Len(fed) - pending - table.nitems + 1, Len(fed) - pending)

\* the non-null values of column j in the current batch
BatchValues(j) ==
    {BatchRows[k][j].v : k \in {i \in 1..Len(BatchRows) : ~BatchRows[i][j].isnull}}

Least(S) == CHOOSE x \in S : \A y \in S : x <= y

Greatest(S) == CHOOSE x \in S : \A y \in S : x >= y

C24_MinMaxOfBatch ==
    \A j \in 1..table.nfields :
        (/\ variant = "query"
         /\ pc \in {"next", "retry"}
         /\ table.attrs[j].stat_update = "stat_update_int32_value") =>
            /\ table.attrs[j].min_isnull <=> BatchValues(j) = {}
            /\ table.attrs[j].max_isnull <=> BatchValues(j) = {}
            /\ BatchValues(j) # {} =>
                   /\ table.attrs[j].min_value = Least(BatchValues(j))
                   /\ table.attrs[j].max_value = Greatest(BatchValues(j))

(***************************************************************************)
(* A date and the timestamp of its midnight: the rows of a result of two   *)
(* columns, SELECT d::date, d::timestamp, go through pgsql_append_results  *)
(* of query.c.                                                             *)
(***************************************************************************)
\* Bound of the model: the rows of the result.
MaxEpochRows == 3

\* USECS_PER_DAY, the bytes of the 64-bit integer 86400000000, least
\* significant first
USECS_PER_DAY == <<0, 96, 215, 29, 20, 0, 0, 0>>

\* the products a[i] * b[k + 1 - i] that meet in byte k, from i on
RECURSIVE MulColumn(_, _, _, _)
MulColumn(a, b, k, i) ==
    IF i > k THEN 0 ELSE a[i] * b[k + 1 - i] + MulColumn(a, b, k, i + 1)

\* the product of two 64-bit integers given by their bytes, modulo 2^64, from
\* byte k on
RECURSIVE Mul64(_, _, _, _)
Mul64(a, b, k, carry) ==
    IF k > 8 THEN <<>>
    ELSE <<(MulColumn(a, b, k, 1) + carry) % 256>>
           \o Mul64(a, b, k + 1, (MulColumn(a, b, k, 1) + carry) \div 256)

\* days counted from 2000-01-01: the epoch itself, its neighbours, 1970-01-01
\* and a day of 2018
EpochDays == {0, 1, -1, -10957, 6879}

\* what PostgreSQL sends for the date d and for the timestamp of its midnight
EpochTuples ==
    {<<TextValue(BE32(d)),
       TextValue(Reverse(Mul64(LE64(d), USECS_PER_DAY, 1, 0)))>> : d \in EpochDays}

InitEpoch ==
    /\ variant = "query"
    /\ table = pgsql_create_buffer(<<DateAttr(<<100>>), TimestampAttr(<<116>>)>>, 64, 0)
    /\ pc = "next"
    /\ cur = <<>>
    /\ consumed = 0
    /\ fed = <<>>
    /\ flushed = <<>>
    /\ rbatch = NoBatch
    /\ heap = 0
    /\ file = Signature
    /\ node = NoMessage
    /\ writer = "arrow_read.c"
    /\ row_usage = 0
    /\ stdout = <<>>
    /\ builder = NoBuilder
    /\ sqlbuffer = NoBuffer

NextEpochTuple ==
    /\ pc = "next"
    /\ consumed < MaxEpochRows
    /\ \E tuple \in EpochTuples :
          /\ fed' = Append(fed, tuple)
          /\ pgsql_append_results(tuple)

SpecEpoch == InitEpoch /\ [][NextEpochTuple]_vars

\* the value of sz bytes that row k left in the values of an attribute
ValueOfRow(attr, k, sz) == SubSeq(Used(attr.values), sz * (k - 1) + 1, sz * k)

(***************************************************************************)
(* C26: for every date d and the timestamp of the midnight of the same day *)
(* the value put_date_value appends is the value put_timestamp_value       *)
(* appends divided by USECS_PER_DAY, that is, the days appended times      *)
(* USECS_PER_DAY are the microseconds appended: both moved to the Unix     *)
(* epoch by the same number of days.                                       *)
(***************************************************************************)
C26_SameEpochShift ==
    (pc = "next" /\ table.attrs[1].put_value = "put_date_value"
                 /\ table.attrs[2].put_value = "put_timestamp_value") =>
        \A k \in 1..table.nitems :
            Mul64(LE64(Int32At(ValueOfRow(table.attrs[1], k, 4))), USECS_PER_DAY, 1, 0)
              = ValueOfRow(table.attrs[2], k, 8)

(***************************************************************************)
(* A numeric below 1: the rows of a result of one numeric(precision,       *)
(* scale) column whose values are pure fractions go through                *)
(* pgsql_append_results of query.c.                                        *)
(***************************************************************************)
\* Bound of the model: the rows of the result.
MaxFractionRows == 2

\* num / 10^exp with its weight and its only base-NBASE digit: 0.0001,
\* 0.00000001 and 0.5, of either sign
Fractions ==
    {[num |-> 1, exp |-> 4, weight |-> -1, digit |-> 1, sign |-> sign] :
        sign \in {0, NUMERIC_NEG}}
      \cup {[num |-> 1, exp |-> 8, weight |-> -2, digit |-> 1, sign |-> sign] :
               sign \in {0, NUMERIC_NEG}}
      \cup {[num |-> 5, exp |-> 1, weight |-> -1, digit |-> 5000, sign |-> sign] :
               sign \in {0, NUMERIC_NEG}}

\* numeric_send() for a fraction: ndigits = 1, the weight as a 16-bit two's
\* complement, sign, dscale and the digit
FractionValue(f) ==
    TextValue(BE16(1) \o BE16(65536 + f.weight) \o BE16(f.sign) \o BE16(f.exp)
                \o BE16(f.digit))

InitFraction ==
    /\ variant = "query"
    /\ \E scale \in 0..MaxScale :
          table = pgsql_create_buffer(<<DecimalAttr(<<99>>, 9 + scale, scale)>>, 64, 0)
    /\ pc = "next"
    /\ cur = <<>>
    /\ consumed = 0
    /\ fed = <<>>
    /\ flushed = <<>>
    /\ rbatch = NoBatch
    /\ heap = 0
    /\ file = Signature
    /\ node = NoMessage
    /\ writer = "arrow_read.c"
    /\ row_usage = 0
    /\ stdout = <<>>
    /\ builder = NoBuilder
    /\ sqlbuffer = NoBuffer

NextFractionTuple ==
    /\ pc = "next"
    /\ consumed < MaxFractionRows
    /\ \E f \in Fractions :
          /\ fed' = Append(fed, <<FractionValue(f)>>)
          /\ pgsql_append_results(<<FractionValue(f)>>)

SpecFraction == InitFraction /\ [][NextFractionTuple]_vars

\* the fraction times 10^scale, truncated toward zero
FractionScaled(f, scale) ==
    IF f.sign = NUMERIC_NEG
    THEN -((f.num * Pow10(scale)) \div Pow10(f.exp))
    ELSE (f.num * Pow10(scale)) \div Pow10(f.exp)

(***************************************************************************)
(* C27: for a numeric that is a pure fraction (negative weight, such as    *)
(* 0.0001 with weight -1 or 0.00000001 with weight -2) and the scale s of  *)
(* the column, put_decimal_value takes the weight as a signed number, so   *)
(* that no pass of the integer part is made, and the int128 it appends is  *)
(* the value times 10^s truncated toward zero.                             *)
(***************************************************************************)
C27_FractionScaled ==
    (pc = "next" /\ table.attrs[1].put_value = "put_decimal_value") =>
        \A k \in 1..table.nitems : \A f \in Fractions :
            fed[k] = <<FractionValue(f)>> =>
                ValueOfRow(table.attrs[1], k, 16)
                  = LE128(FractionScaled(f, table.attrs[1].arrow_type.scale), 16)

(***************************************************************************)
(* One SQLbuffer on its own: a values buffer takes the appends, a null     *)
(* bitmap takes setbit and clrbit, as the put_value handlers call them,    *)
(* and pgsql_clear_attribute clears either.                                *)
(***************************************************************************)
\* Bound of the model: the bytes appended to the buffer before it is cleared.
MaxUsage == 8

\* what is appended: an int8, an int16 and an int32
AppendSources == {<<7>>, <<1, 2>>, <<9, 0, 0, 128>>}

\* the lengths of append_zero: a null of one byte, of an int32, of an int64
ZeroLengths == {1, 4, 8}

\* row indexes: the first rows, and the first rows whose bit lies behind 2 MiB
\* and behind 4 MiB
BitIndexes == {0, 1, 9, 16777216, 33554432}

InitBuffer ==
    /\ variant = "query"
    /\ table = pgsql_create_buffer(OneColumn, 0, 0)
    /\ pc = "buffer"
    /\ cur = <<>>
    /\ consumed = 0
    /\ fed = <<>>
    /\ flushed = <<>>
    /\ rbatch = NoBatch
    /\ heap = 0
    /\ file = <<>>
    /\ node = NoMessage
    /\ writer = "arrow_read.c"
    /\ row_usage = 0
    /\ stdout = <<>>
    /\ builder = NoBuilder
    /\ \/ sqlbuffer = NoBuffer
       \/ sqlbuffer = [NoBuffer EXCEPT !.kind = "bitmap", !.buf = sql_bitmap_init,
                                       !.before = sql_bitmap_init]

otherVars ==
    <<variant, table, pc, cur, consumed, fed, flushed, rbatch, heap, file, node, writer,
      row_usage, stdout, builder>>

\* one call on the buffer: what was called, with what, and the buffer before
Called(call, arg, buf) ==
    [sqlbuffer EXCEPT !.call = call, !.arg = arg, !.before = sqlbuffer.buf, !.buf = buf]

BufferAppend ==
    /\ pc = "buffer"
    /\ sqlbuffer.kind = "values"
    /\ \E src \in AppendSources :
          /\ sqlbuffer.buf.usage + Len(src) <= MaxUsage
          /\ sqlbuffer' = Called("sql_buffer_append", Len(src),
                                 sql_buffer_append(sqlbuffer.buf, src))
    /\ UNCHANGED otherVars

BufferAppendZero ==
    /\ pc = "buffer"
    /\ sqlbuffer.kind = "values"
    /\ \E len \in ZeroLengths :
          /\ sqlbuffer.buf.usage + len <= MaxUsage
          /\ sqlbuffer' = Called("sql_buffer_append_zero", len,
                                 sql_buffer_append_zero(sqlbuffer.buf, len))
    /\ UNCHANGED otherVars

BufferSetBit ==
    /\ pc = "buffer"
    /\ sqlbuffer.kind = "bitmap"
    /\ \E index \in BitIndexes :
          sqlbuffer' = Called("sql_buffer_setbit", index,
                              sql_buffer_setbit(sqlbuffer.buf, index))
    /\ UNCHANGED otherVars

BufferClrBit ==
    /\ pc = "buffer"
    /\ sqlbuffer.kind = "bitmap"
    /\ \E index \in BitIndexes :
          sqlbuffer' = Called("sql_buffer_clrbit", index,
                              sql_buffer_clrbit(sqlbuffer.buf, index))
    /\ UNCHANGED otherVars

BufferClear ==
    /\ pc = "buffer"
    /\ sqlbuffer' = Called("sql_buffer_clear", 0, sql_buffer_clear(sqlbuffer.buf))
    /\ UNCHANGED otherVars

NextBuffer ==
    \/ BufferAppend
    \/ BufferAppendZero
    \/ BufferSetBit
    \/ BufferClrBit
    \/ BufferClear

SpecBuffer == InitBuffer /\ [][NextBuffer]_vars

RECURSIVE PowerOfTwo(_)
PowerOfTwo(n) == n = 1 \/ (n > 1 /\ n % 2 = 0 /\ PowerOfTwo(n \div 2))

RequiredUnits == {1, 2, 3, 5, 9, 17, 33, 65, 129, 257, 513, 1025, 2049, 4095}

\* a value stored to a uint32, or computed in unsigned int
Truncate32(units) == units % 4096

\* while (length < required) length *= 2;   -1 when the loop never ends
RECURSIVE DoubledLength(_, _)
DoubledLength(length, required) ==
    IF length >= required THEN length
    ELSE IF length = 0 THEN -1
    ELSE DoubledLength(2 * length, required)

\* what the call leaves: the buffer, and whether it came back
Expanded(buf, returned) == [buf |-> buf, returned |-> returned]

\* the mapping succeeds; buf is [ptr, usage, length], ptr FALSE for NULL
sql_buffer_expand_units(buf, required) ==
    LET store(length) ==
            IF length = -1 THEN Expanded(buf, FALSE)
            ELSE Expanded([buf EXCEPT !.ptr = TRUE, !.length = Truncate32(length),
                                      !.usage = IF buf.ptr THEN buf.usage ELSE 0],
                          TRUE)
    IN  IF ~(buf.length < required) THEN Expanded(buf, TRUE)
        ELSE IF ~buf.ptr THEN store(DoubledLength(2, required))
        ELSE store(DoubledLength(Truncate32(2 * buf.length), required))

InitExpand ==
    /\ variant = "query"
    /\ table = pgsql_create_buffer(OneColumn, 0, 0)
    /\ pc = "expand"
    /\ cur = <<>>
    /\ consumed = 0
    /\ fed = <<>>
    /\ flushed = <<>>
    /\ rbatch = NoBatch
    /\ heap = 0
    /\ file = <<>>
    /\ node = NoMessage
    /\ writer = "arrow_read.c"
    /\ row_usage = 0
    /\ stdout = <<>>
    /\ builder = NoBuilder
    /\ sqlbuffer = [kind |-> "units",
                    buf |-> [ptr |-> FALSE, usage |-> 0, length |-> 0],
                    call |-> "sql_buffer_init", arg |-> 0,
                    before |-> [ptr |-> FALSE, usage |-> 0, length |-> 0]]

\* sql_buffer_expand(buf, required): it returns, it never leaves its loop, or
\* mmap/mremap fails and Elog() ends the program
Expand ==
    /\ pc = "expand"
    /\ \E required \in RequiredUnits, mapped \in BOOLEAN :
          LET call(r) ==
                  /\ sqlbuffer' = [sqlbuffer EXCEPT
                                      !.call = "sql_buffer_expand", !.arg = required,
                                      !.before = sqlbuffer.buf,
                                      !.buf = IF mapped THEN r.buf ELSE sqlbuffer.buf]
                  /\ pc' = IF ~r.returned THEN "hung"
                           ELSE IF ~mapped /\ r.buf # sqlbuffer.buf THEN "fatal"
                           ELSE "expand"
          IN  call(sql_buffer_expand_units(sqlbuffer.buf, required))
    /\ UNCHANGED <<variant, table, cur, consumed, fed, flushed, rbatch, heap, file, node,
                   writer, row_usage, stdout, builder>>

SpecExpand == InitExpand /\ [][Expand]_vars

(***************************************************************************)
(* C30: sql_buffer_expand terminates and leaves length >= required, for    *)
(* every state of the buffer and every required size below 2^32: while it  *)
(* doubles, the 32-bit capacity never wraps to 0 or to less than it was.   *)
(***************************************************************************)
C30_ExpandTerminates ==
    /\ pc # "hung"
    /\ (pc = "expand" /\ sqlbuffer.call = "sql_buffer_expand") =>
           /\ sqlbuffer.buf.length >= sqlbuffer.arg
           /\ sqlbuffer.buf.length >= sqlbuffer.before.length

====
